---- MODULE Spec2Model ----
(***************************************************************************)
(* A model of onager's command sweep expansion engine: meta_launch and     *)
(* _sample_random_value (src/onager/meta_launcher.py) together with the    *)
(* job-file routines load_jobfile and save_jobfile (src/thoth/utils.py).   *)
(*                                                                         *)
(* Python strings are TLA+ strings; the string methods the code uses       *)
(* (startswith, split, strip, replace, format, lower, int(), float(),      *)
(* str()) are operators that compute what the methods compute, character   *)
(* by character.  Python floats are modelled as exact decimals             *)
(* [m |-> mantissa, e |-> exponent], the number m * 10^e.                  *)
(***************************************************************************)
EXTENDS Integers, Sequences, FiniteSets, TLC

(***************************************************************************)
(* Bounds of the model.                                                    *)
(***************************************************************************)
MaxTrials == 2
MaxExisting == 2
RandBits == 1

(***************************************************************************)
(* Python's None, and the constants of onager/constants.py.                *)
(***************************************************************************)
\* An optional value is None or Some(x).
None == <<>>

Some(x) == <<x>>

The(o) == o[1]

SEP == "_"
WSEP == "__"
FLAG_ON == "+"
FLAG_OFF == "-"

(***************************************************************************)
(* Generic helpers on sequences and numbers.                               *)
(***************************************************************************)
Range(s) == {s[i] : i \in 1..Len(s)}

Max(a, b) == IF a >= b THEN a ELSE b

Abs(n) == IF n < 0 THEN -n ELSE n

RECURSIVE Pow10(_)
Pow10(n) == IF n <= 0 THEN 1 ELSE 10 * Pow10(n - 1)

RECURSIVE Pow2(_)
Pow2(n) == IF n <= 0 THEN 1 ELSE 2 * Pow2(n - 1)

RECURSIVE SetMax(_)
SetMax(S) ==
  LET x == CHOOSE y \in S : TRUE
  IN IF S = {x} THEN x ELSE Max(x, SetMax(S \ {x}))

RECURSIVE Flatten(_)
Flatten(ss) == IF ss = <<>> THEN <<>> ELSE Head(ss) \o Flatten(Tail(ss))

(***************************************************************************)
(* Python string methods.                                                  *)
(***************************************************************************)
CharAt(s, i) == SubSeq(s, i, i)

StrFrom(s, i) == SubSeq(s, i, Len(s))

StartsWith(s, p) == Len(s) >= Len(p) /\ SubSeq(s, 1, Len(p)) = p

EndsWith(s, p) == Len(s) >= Len(p) /\ SubSeq(s, Len(s) - Len(p) + 1, Len(s)) = p

\* s.find(sub, from): the first index >= from at which sub occurs, 0 if none.
RECURSIVE Find(_, _, _)
Find(s, sub, from) ==
  IF from + Len(sub) - 1 > Len(s) THEN 0
  ELSE IF SubSeq(s, from, from + Len(sub) - 1) = sub THEN from
  ELSE Find(s, sub, from + 1)

\* sub in s
Contains(s, sub) == Find(s, sub, 1) # 0

\* s.replace(old, new), old non-empty: every non-overlapping occurrence.
RECURSIVE Replace(_, _, _)
Replace(s, old, new) ==
  LET i == Find(s, old, 1)
  IN IF i = 0 THEN s
     ELSE SubSeq(s, 1, i - 1) \o new \o Replace(StrFrom(s, i + Len(old)), old, new)

IsSpace(c) == c = " "

\* s.strip()
RECURSIVE LStrip(_)
LStrip(s) == IF Len(s) > 0 /\ IsSpace(CharAt(s, 1)) THEN LStrip(StrFrom(s, 2)) ELSE s

RECURSIVE RStrip(_)
RStrip(s) ==
  IF Len(s) > 0 /\ IsSpace(CharAt(s, Len(s))) THEN RStrip(SubSeq(s, 1, Len(s) - 1)) ELSE s

Strip(s) == RStrip(LStrip(s))

\* s.split(sep), sep non-empty: empty items are kept.
RECURSIVE Split(_, _)
Split(s, sep) ==
  LET i == Find(s, sep, 1)
  IN IF i = 0 THEN <<s>>
     ELSE <<SubSeq(s, 1, i - 1)>> \o Split(StrFrom(s, i + Len(sep)), sep)

\* s.split(): on runs of whitespace, empty items dropped.
SplitWs(s) == SelectSeq(Split(s, " "), LAMBDA x : x # "")

\* sep.join(items)
RECURSIVE Join(_, _)
Join(sep, items) ==
  IF items = <<>> THEN ""
  ELSE IF Len(items) = 1 THEN items[1]
  ELSE items[1] \o sep \o Join(sep, Tail(items))

UpperCase == "ABCDEFGHIJKLMNOPQRSTUVWXYZ"
LowerCase == "abcdefghijklmnopqrstuvwxyz"

LowerChar(c) ==
  LET i == Find(UpperCase, c, 1) IN IF i = 0 THEN c ELSE CharAt(LowerCase, i)

\* s.lower()
RECURSIVE Lower(_)
Lower(s) == IF s = "" THEN "" ELSE LowerChar(CharAt(s, 1)) \o Lower(StrFrom(s, 2))

\* s.format(v) for a template holding at most one '{}' slot and no other brace.
Format(s, v) ==
  LET i == Find(s, "{}", 1)
  IN IF i = 0 THEN s ELSE SubSeq(s, 1, i - 1) \o v \o StrFrom(s, i + 2)

(***************************************************************************)
(* Numbers: int(), str(), '{:0Nd}'.format().                               *)
(***************************************************************************)
Digits == "0123456789"

IsDigit(c) == Len(c) = 1 /\ Find(Digits, c, 1) # 0

DigitVal(c) == Find(Digits, c, 1) - 1

RECURSIVE AllDigits(_)
AllDigits(s) == s = "" \/ (IsDigit(CharAt(s, 1)) /\ AllDigits(StrFrom(s, 2)))

RECURSIVE DigitsVal(_)
DigitsVal(s) ==
  IF s = "" THEN 0 ELSE 10 * DigitsVal(SubSeq(s, 1, Len(s) - 1)) + DigitVal(CharAt(s, Len(s)))

HasSign(s) == Len(s) > 0 /\ CharAt(s, 1) \in {"+", "-"}

Unsigned(s) == IF HasSign(s) THEN StrFrom(s, 2) ELSE s

\* Whether int(s) returns rather than raising ValueError.
_is_int(value) ==
  LET t == Unsigned(Strip(value)) IN t # "" /\ AllDigits(t)

\* int(s), for s that _is_int.
ToInt(s) ==
  LET t == Strip(s)
  IN IF StartsWith(t, "-") THEN -DigitsVal(Unsigned(t)) ELSE DigitsVal(Unsigned(t))

RECURSIVE NatToStr(_)
NatToStr(n) ==
  IF n < 10 THEN CharAt(Digits, n + 1)
  ELSE NatToStr(n \div 10) \o CharAt(Digits, (n % 10) + 1)

\* str(n)
IntToStr(n) == IF n < 0 THEN "-" \o NatToStr(-n) ELSE NatToStr(n)

RECURSIVE Zeros(_)
Zeros(n) == IF n <= 0 THEN "" ELSE "0" \o Zeros(n - 1)

\* '{:0Nd}'.format(i) with N = n_digits, i >= 0.
ZeroPad(i, n_digits) == Zeros(n_digits - Len(NatToStr(i))) \o NatToStr(i)

(***************************************************************************)
(* Floats as exact decimals: [m |-> m, e |-> e] is the number m * 10^e.    *)
(***************************************************************************)
Dec(m, e) == [m |-> m, e |-> e]

RECURSIVE DecNorm(_)
DecNorm(x) ==
  IF x.m = 0 THEN Dec(0, 0)
  ELSE IF x.m % 10 = 0 THEN DecNorm(Dec(x.m \div 10, x.e + 1))
  ELSE x

Min2(a, b) == IF a <= b THEN a ELSE b

\* The mantissa of x at the exponent e <= x.e.
Scaled(x, e) == IF x.m = 0 THEN 0 ELSE x.m * Pow10(x.e - e)

DecSub(x, y) ==
  LET e == Min2(x.e, y.e) IN DecNorm(Dec(Scaled(x, e) - Scaled(y, e), e))

DecAdd(x, y) ==
  LET e == Min2(x.e, y.e) IN DecNorm(Dec(Scaled(x, e) + Scaled(y, e), e))

DecMul(x, y) == DecNorm(Dec(x.m * y.m, x.e + y.e))

DecAbs(x) == Dec(Abs(x.m), x.e)

Sign(n) == IF n < 0 THEN -1 ELSE IF n = 0 THEN 0 ELSE 1

\* The decimal order of magnitude of x # 0: 10^(Mag - 1) <= |x| < 10^Mag.
Mag(x) == Len(NatToStr(Abs(x.m))) + x.e

\* x < y for x, y >= 0, decided by magnitude before the mantissas are aligned.
PosLess(x, y) ==
  IF y.m = 0 THEN FALSE
  ELSE IF x.m = 0 THEN TRUE
  ELSE IF Mag(x) # Mag(y) THEN Mag(x) < Mag(y)
  ELSE LET e == Min2(x.e, y.e) IN Scaled(x, e) < Scaled(y, e)

DecLess(x, y) ==
  IF Sign(x.m) # Sign(y.m) THEN Sign(x.m) < Sign(y.m)
  ELSE IF x.m >= 0 THEN PosLess(x, y)
  ELSE PosLess(DecAbs(y), DecAbs(x))

DecLeq(x, y) == ~DecLess(y, x)

\* The digits beyond the kept ones cut off instead of rounded.
RoundDivDown(n, k) == n \div Pow10(k)

\* Round n / 10^k to the nearest integer, ties to even (n >= 0, k >= 0).
RoundDiv(n, k) ==
  LET p == Pow10(k)
      q == n \div p
      r == n % p
  IN IF 2 * r > p THEN q + 1
     ELSE IF 2 * r < p THEN q
     ELSE IF q % 2 = 0 THEN q ELSE q + 1

\* Whether float(s) returns rather than raising ValueError: an optional sign,
\* digits with an optional point, an optional exponent.
_is_float(value) ==
  LET t == Unsigned(Strip(value))
      ei == Find(Lower(t), "e", 1)
      mant == IF ei = 0 THEN t ELSE SubSeq(t, 1, ei - 1)
      expo == IF ei = 0 THEN "0" ELSE StrFrom(t, ei + 1)
      pi == Find(mant, ".", 1)
      ip == IF pi = 0 THEN mant ELSE SubSeq(mant, 1, pi - 1)
      fp == IF pi = 0 THEN "" ELSE StrFrom(mant, pi + 1)
  IN /\ AllDigits(ip) /\ AllDigits(fp) /\ ip \o fp # ""
     /\ _is_int(expo) /\ Strip(expo) = expo

\* float(s), for s that _is_float.
ToFloat(s) ==
  LET st == Strip(s)
      t == Unsigned(st)
      ei == Find(Lower(t), "e", 1)
      mant == IF ei = 0 THEN t ELSE SubSeq(t, 1, ei - 1)
      expo == IF ei = 0 THEN 0 ELSE ToInt(StrFrom(t, ei + 1))
      pi == Find(mant, ".", 1)
      ip == IF pi = 0 THEN mant ELSE SubSeq(mant, 1, pi - 1)
      fp == IF pi = 0 THEN "" ELSE StrFrom(mant, pi + 1)
      m == DigitsVal(ip \o fp)
  IN DecNorm(Dec(IF StartsWith(st, "-") THEN -m ELSE m, expo - Len(fp)))

\* '{:.5f}'.format(x)
Format5f(x) ==
  LET n == Abs(x.m)
      q == IF x.e >= -5 THEN n * Pow10(x.e + 5) ELSE RoundDiv(n, -5 - x.e)
  IN (IF x.m < 0 THEN "-" ELSE "") \o NatToStr(q \div 100000) \o "."
       \o ZeroPad(q % 100000, 5)

\* '{:.5e}'.format(x): one digit, a point, five digits, a two-digit exponent.
Format5e(x) ==
  LET n == Abs(x.m)
      d == Len(NatToStr(n))
      q0 == IF d <= 6 THEN n * Pow10(6 - d) ELSE RoundDiv(n, d - 6)
      carry == q0 = 1000000
      q == IF carry THEN 100000 ELSE q0
      X == IF n = 0 THEN 0 ELSE (d - 1 + x.e) + (IF carry THEN 1 ELSE 0)
  IN (IF x.m < 0 THEN "-" ELSE "") \o NatToStr(q \div 100000) \o "."
       \o ZeroPad(q % 100000, 5) \o "e" \o (IF X < 0 THEN "-" ELSE "+")
       \o ZeroPad(Abs(X), 2)

\* abs(v) < 0.001 or abs(v) >= 10000
UsesScientific(x) ==
  DecLess(DecAbs(x), Dec(1, -3)) \/ DecLeq(Dec(1, 4), DecAbs(x))

\* The five-decimal / scientific formatter of lines 89-92.
FormatFloat(x) == IF UsesScientific(x) THEN Format5e(x) ELSE Format5f(x)

(***************************************************************************)
(* The random generator.  random.random() returns a multiple of 2^-53 in   *)
(* [0, 1); the model draws the multiples of 2^-RandBits.                   *)
(***************************************************************************)
RECURSIVE Pow5(_)
Pow5(n) == IF n <= 0 THEN 1 ELSE 5 * Pow5(n - 1)

random_random == {DecNorm(Dec(k * Pow5(RandBits), -RandBits)) : k \in 0..(Pow2(RandBits) - 1)}

\* A draw that can pass the upper end by one.
randint_past(a, b) == a..(b + 1)

\* random.randint(a, b): any integer of a..b, both ends included.
randint(a, b) == a..b

\* random.choice(seq): any element.
random_choice(choices) == Range(choices)

(***************************************************************************)
(* _sample_random_value                                                    *)
(***************************************************************************)
\* Lines 44-49: the candidates of a choice text, bracketed or bare.
IsBracketed(text) == StartsWith(text, "[") /\ EndsWith(text, "]")

StripAll(items) == [i \in 1..Len(items) |-> Strip(items[i])]

\* The candidates kept with the blanks around them.
ParseChoicesUnstripped(text) ==
  LET body == IF IsBracketed(text) THEN SubSeq(text, 2, Len(text) - 1) ELSE text
  IN SelectSeq(Split(body, ","), LAMBDA c : Strip(c) # "")

ParseChoices(text) ==
  LET body == IF IsBracketed(text) THEN SubSeq(text, 2, Len(text) - 1) ELSE text
  IN SelectSeq(StripAll(Split(body, ",")), LAMBDA c : c # "")

\* An outcome that emits no warning.
OutcomeSilent(value, warnings, random_value) ==
  [value |-> value, warnings |-> 0, random_value |-> random_value]

\* What a call returns: the string, the warnings it raised, and for a float
\* draw Some(the number drawn before formatting), None otherwise.
Outcome(value, warnings, random_value) ==
  [value |-> value, warnings |-> warnings, random_value |-> random_value]

\* Lines 74-83.  math.log raises ValueError on a non-positive argument; the
\* draw exp(log_min + r * (log_max - log_min)) is some number between the
\* bounds: the model draws the lower bound and the powers of ten between.
LogDraws(lo, hi) ==
  {lo} \cup {Dec(1, k) : k \in {j \in (Mag(lo) - 1)..Mag(hi) :
                                   DecLess(lo, Dec(1, j)) /\ DecLess(Dec(1, j), hi)}}

\* Line 86: min_float + random.random() * (max_float - min_float)
LinearDraws(min_float, max_float) ==
  {DecAdd(min_float, DecMul(r, DecSub(max_float, min_float))) : r \in random_random}

SampleFloat(min_val, max_val, sampling_space) ==
  IF ~(_is_float(min_val) /\ _is_float(max_val))
  THEN {Outcome(min_val, 1, None)}
  ELSE
    LET lo0 == ToFloat(min_val)
        hi == ToFloat(max_val)
        isLog == Lower(sampling_space) = "log"
        adjust == isLog /\ lo0.m <= 0
        lo == IF adjust THEN Dec(1, -10) ELSE lo0
        w == IF adjust THEN 1 ELSE 0
    IN IF isLog /\ hi.m <= 0
       THEN {Outcome(min_val, w + 1, None)}
       ELSE {Outcome(FormatFloat(v), w, Some(v)) :
               v \in IF isLog THEN LogDraws(lo, hi) ELSE LinearDraws(lo, hi)}

SampleInt(min_val, max_val) ==
  IF ~(_is_int(min_val) /\ _is_int(max_val)) \/ ToInt(min_val) > ToInt(max_val)
  THEN {Outcome(min_val, 1, None)}
  ELSE {Outcome(IntToStr(v), 0, None) : v \in randint(ToInt(min_val), ToInt(max_val))}

SampleChoice(min_val) ==
  LET choices == ParseChoices(min_val)
  IN IF choices # <<>>
     THEN {Outcome(c, 0, None) : c \in random_choice(choices)}
     ELSE {Outcome(min_val, 1, None)}

\* The set of outcomes a call can have.
_sample_random_value(param_type, min_val, max_val, sampling_space) ==
  IF Lower(param_type) = "choice" THEN SampleChoice(min_val)
  ELSE IF Lower(param_type) = "int" THEN SampleInt(min_val, max_val)
  ELSE IF Lower(param_type) = "float" THEN SampleFloat(min_val, max_val, sampling_space)
  ELSE {Outcome(min_val, 1, None)}

(***************************************************************************)
(* OrderedDict: a sequence of [key, val] entries in insertion order.       *)
(***************************************************************************)
DictKeys(d) == [i \in 1..Len(d) |-> d[i].key]

DictHas(d, k) == \E i \in 1..Len(d) : d[i].key = k

DictGet(d, k) == d[CHOOSE i \in 1..Len(d) : d[i].key = k].val

\* d[k] = v: an existing key keeps its place.
DictSet(d, k, v) ==
  IF DictHas(d, k)
  THEN [i \in 1..Len(d) |-> IF d[i].key = k THEN [key |-> k, val |-> v] ELSE d[i]]
  ELSE Append(d, [key |-> k, val |-> v])

\* Line 114: OrderedDict({arglist[0]: arglist[1:] for arglist in args.arg})
RECURSIVE DictOfArgs(_)
DictOfArgs(arg) ==
  IF arg = <<>> THEN <<>>
  ELSE LET last == arg[Len(arg)]
       IN DictSet(DictOfArgs(SubSeq(arg, 1, Len(arg) - 1)), last[1], Tail(last))

(***************************************************************************)
(* Lines 137-243: the validation of one +randarg specification.  fatal is  *)
(* sys.exit(1); otherwise entry is what is stored in rand_variables.       *)
(***************************************************************************)
Validated(fatal, warnings, entry) ==
  [fatal |-> fatal, warnings |-> warnings, entry |-> entry]

RandEntry(param_type, min_val, max_val, sampling_space) ==
  [param_type |-> param_type, min_val |-> min_val, max_val |-> max_val,
   sampling_space |-> sampling_space]

Fatal == Validated(TRUE, 0, None)

\* No check of the form of the text.
ChoiceFormatOkAny(choices) == TRUE

\* Line 157 negated: the text is bracketed or holds a comma.
ChoiceFormatOk(choices) == IsBracketed(choices) \/ Contains(choices, ",")

\* ValidateChoice taking tokens after the choices for a fatal error.
ValidateChoiceExact(rand_arglist) ==
  LET choices == rand_arglist[3]
  IN IF ~ChoiceFormatOk(choices) \/ Len(rand_arglist) > 3 THEN Fatal
     ELSE IF ParseChoices(choices) = <<>> THEN Fatal
     ELSE Validated(FALSE, 0, Some(RandEntry("choice", choices, "", "linear")))

\* Lines 153-184
ValidateChoice(rand_arglist) ==
  LET choices == rand_arglist[3]
  IN IF ~ChoiceFormatOk(choices) THEN Fatal
     ELSE IF ParseChoices(choices) = <<>> THEN Fatal
     ELSE Validated(FALSE, IF Len(rand_arglist) > 3 THEN 1 ELSE 0,
                    Some(RandEntry("choice", choices, "", "linear")))

\* Equal bounds let through.
BoundsInvertedStrict(lo, hi) == DecLess(hi, lo)

\* Line 224: min_num >= max_num
BoundsInverted(lo, hi) == DecLeq(hi, lo)

\* Lines 186-233
ValidateNumeric(rand_arglist, param_type) ==
  IF Len(rand_arglist) < 4 THEN Fatal
  ELSE
    LET min_val == rand_arglist[3]
        max_val == rand_arglist[4]
        isLog == param_type = "float" /\ Len(rand_arglist) > 4
                   /\ Lower(rand_arglist[5]) = "log"
        sampling_space == IF isLog THEN "log" ELSE "linear"
        extra == IF isLog THEN Len(rand_arglist) > 5 ELSE Len(rand_arglist) > 4
        parses == IF param_type = "int"
                  THEN _is_int(min_val) /\ _is_int(max_val)
                  ELSE _is_float(min_val) /\ _is_float(max_val)
        min_num == IF param_type = "int" THEN Dec(ToInt(min_val), 0) ELSE ToFloat(min_val)
        max_num == IF param_type = "int" THEN Dec(ToInt(max_val), 0) ELSE ToFloat(max_val)
    IN IF ~parses THEN Fatal
       ELSE IF BoundsInverted(min_num, max_num) THEN Fatal
       ELSE Validated(FALSE,
                      (IF extra THEN 1 ELSE 0)
                        + (IF param_type = "float" /\ isLog /\ min_num.m <= 0 THEN 1 ELSE 0),
                      Some(RandEntry(param_type, min_val, max_val, sampling_space)))

\* Lines 139-243
ValidateRandarg(rand_arglist) ==
  IF Len(rand_arglist) < 3 THEN Fatal
  ELSE LET param_type == Lower(rand_arglist[2])
       IN IF param_type = "choice" THEN ValidateChoice(rand_arglist)
          ELSE IF param_type \in {"int", "float"} THEN ValidateNumeric(rand_arglist, param_type)
          ELSE Fatal

(***************************************************************************)
(* The expansion stages.  A comprehension                                  *)
(*   [f(v, prefix) for v in value_list for prefix in prefix_list]          *)
(* runs over value_list in its outer loop.                                 *)
(***************************************************************************)
MapSeq(seq, F(_)) == [i \in 1..Len(seq) |-> F(seq[i])]

\* FormatEach with the loops exchanged: the prefixes in the outer loop.
FormatEachInner(prefix_list, value_list) ==
  Flatten([j \in 1..Len(prefix_list) |->
             [i \in 1..Len(value_list) |-> Format(prefix_list[j], value_list[i])]])

\* [prefix.format(v) for v in value_list for prefix in prefix_list]
FormatEach(prefix_list, value_list) ==
  Flatten([i \in 1..Len(value_list) |->
             [j \in 1..Len(prefix_list) |-> Format(prefix_list[j], value_list[i])]])

\* Lines 269-270 and 319-320: one positional parameter.
ExpandPositional(prefix_list, value_list) ==
  FormatEach(MapSeq(prefix_list, LAMBDA prefix : prefix \o " {}"), value_list)

\* ExpandNamed taking the first value of the list only.
ExpandNamedFirstValue(prefix_list, key, value_list, var_sep) ==
  LET named == MapSeq(prefix_list, LAMBDA prefix : prefix \o " " \o key)
  IN IF Len(value_list) > 0
     THEN FormatEach(MapSeq(named, LAMBDA prefix : prefix \o var_sep \o "{}"),
                     <<Head(value_list)>>)
     ELSE named

\* Lines 278-281 and 336-339: one named parameter.
ExpandNamed(prefix_list, key, value_list, var_sep) ==
  LET named == MapSeq(prefix_list, LAMBDA prefix : prefix \o " " \o key)
  IN IF Len(value_list) > 0
     THEN FormatEach(MapSeq(named, LAMBDA prefix : prefix \o var_sep \o "{}"), value_list)
     ELSE named

\* ExpandFlag with the halves exchanged: the unchanged prefixes first.
ExpandFlagAbsentFirst(prefix_list, flag) ==
  MapSeq(prefix_list \o MapSeq(prefix_list, LAMBDA prefix : prefix \o " {}"),
         LAMBDA prefix : IF Contains(prefix, "{}") THEN Format(prefix, flag) ELSE prefix)

\* Lines 383-387: one flag.
ExpandFlag(prefix_list, flag) ==
  MapSeq(MapSeq(prefix_list, LAMBDA prefix : prefix \o " {}") \o prefix_list,
         LAMBDA prefix : IF Contains(prefix, "{}") THEN Format(prefix, flag) ELSE prefix)

\* Lines 343, 487, 496: the parameter name as it appears in a tag.
Keyname(key) ==
  Replace(Replace(Replace(Replace(key, "_", ""), "-", ""), "=", "_"), "/", ".")

\* Lines 322-328: the tag suffixes after one positional parameter.
SuffixPositional(suffix_list, value_list) ==
  FormatEach(MapSeq(suffix_list, LAMBDA suffix : suffix \o WSEP \o "{}"), value_list)

\* The character classes of the two patterns: [0-9.e+-] and [^ ].
InClass(c, class) ==
  IF class = "float" THEN IsDigit(c) \/ c \in {".", "e", "+", "-"} ELSE c # " "

\* The end of the longest run of characters of the class that starts at i.
RECURSIVE RunEnd(_, _, _)
RunEnd(s, i, class) ==
  IF i <= Len(s) /\ InClass(CharAt(s, i), class) THEN RunEnd(s, i + 1, class) ELSE i - 1

\* re.search(lit + '(C+)', s).group(1) for a literal lit and a class C: the
\* run after the leftmost occurrence of lit that a character of the class
\* follows; None when there is no match.
RECURSIVE SearchRun(_, _, _, _)
SearchRun(s, lit, class, from) ==
  LET i == Find(s, lit, from)
      j == i + Len(lit)
  IN IF i = 0 THEN None
     ELSE IF j <= Len(s) /\ InClass(CharAt(s, j), class)
          THEN Some(SubSeq(s, j, RunEnd(s, j, class)))
     ELSE SearchRun(s, lit, class, i + 1)

\* Lines 356-375: one suffix with the float value of keyname re-formatted.
ReformatFloat(suffix, keyname) ==
  LET g == SearchRun(suffix, keyname \o SEP, "float", 1)
  IN IF g = None THEN suffix
     ELSE IF ~_is_float(The(g)) THEN suffix
     ELSE Replace(suffix, The(g), FormatFloat(ToFloat(The(g))))

\* Lines 340-379: the tag suffixes after one named parameter.
SuffixNamed(suffix_list, key, value_list, tag_args, rand_variables) ==
  IF key \in Range(tag_args)
  THEN LET value_slot == IF Len(value_list) > 0 THEN SEP \o "{}" ELSE ""
           keyname == Keyname(key)
           slotted == MapSeq(suffix_list,
                             LAMBDA suffix : suffix \o WSEP \o keyname \o value_slot)
       IN IF Len(value_list) > 0
          THEN LET filled == FormatEach(slotted, value_list)
               IN IF DictHas(rand_variables, key)
                     /\ DictGet(rand_variables, key).param_type = "float"
                  THEN MapSeq(filled, LAMBDA suffix : ReformatFloat(suffix, keyname))
                  ELSE filled
          ELSE slotted
  ELSE Flatten([i \in 1..Len(value_list) |-> suffix_list])

\* Lines 389-396: the tag suffixes after one flag.
SuffixFlag(suffix_list, flag) ==
  LET bare == Replace(Replace(flag, FLAG_OFF, ""), FLAG_ON, "")
      slotted == MapSeq(suffix_list, LAMBDA suffix : suffix \o "{}")
  IN FormatEach(slotted, <<WSEP \o FLAG_ON \o bare, WSEP \o FLAG_OFF \o bare>>)

(***************************************************************************)
(* Lines 252-288: the commands of one trial.                               *)
(***************************************************************************)
RECURSIVE ExpandAllPositional(_, _)
ExpandAllPositional(prefix_list, pos_variables) ==
  IF pos_variables = <<>> THEN prefix_list
  ELSE ExpandAllPositional(ExpandPositional(prefix_list, Head(pos_variables)),
                           Tail(pos_variables))

\* Lines 273-281: every named parameter but the virtual '__trial__'.
RECURSIVE ExpandAllNamed(_, _, _)
ExpandAllNamed(prefix_list, variables, var_sep) ==
  IF variables = <<>> THEN prefix_list
  ELSE LET e == Head(variables)
       IN ExpandAllNamed(IF e.key = "__trial__" THEN prefix_list
                         ELSE ExpandNamed(prefix_list, e.key, e.val, var_sep),
                         Tail(variables), var_sep)

\* AppendTrialValues giving the sampled values to the first command only.
RECURSIVE AppendTrialValuesFirstOnly(_, _, _)
AppendTrialValuesFirstOnly(prefix_list, trial_values, var_sep) ==
  IF trial_values = <<>> \/ prefix_list = <<>> THEN prefix_list
  ELSE LET e == Head(trial_values)
       IN AppendTrialValuesFirstOnly(
            <<Head(prefix_list) \o " " \o e.key \o var_sep \o e.val>> \o Tail(prefix_list),
            Tail(trial_values), var_sep)

\* Lines 284-285: the trial's random values, one per random parameter.
RECURSIVE AppendTrialValues(_, _, _)
AppendTrialValues(prefix_list, trial_values, var_sep) ==
  IF trial_values = <<>> THEN prefix_list
  ELSE LET e == Head(trial_values)
       IN AppendTrialValues(
            MapSeq(prefix_list, LAMBDA prefix : prefix \o " " \o e.key \o var_sep \o e.val),
            Tail(trial_values), var_sep)

TrialCommands(base_cmd, pos_variables, variables, trial_values, var_sep) ==
  AppendTrialValues(
    ExpandAllNamed(ExpandAllPositional(<<base_cmd>>, pos_variables), variables, var_sep),
    trial_values, var_sep)

\* Lines 257-259 and 291-292: every way of drawing one value per random
\* parameter, as sequences of outcomes in the order of rand_variables.
RECURSIVE SampleAll(_)
SampleAll(rand_variables) ==
  IF rand_variables = <<>> THEN {<<>>}
  ELSE LET e == Head(rand_variables).val
       IN {<<o>> \o rest :
             o \in _sample_random_value(e.param_type, e.min_val, e.max_val, e.sampling_space),
             rest \in SampleAll(Tail(rand_variables))}

RECURSIVE SumWarnings(_)
SumWarnings(outcomes) ==
  IF outcomes = <<>> THEN 0 ELSE Head(outcomes).warnings + SumWarnings(Tail(outcomes))

(***************************************************************************)
(* Lines 424-506: the tag of a trial command, rebuilt from its text.       *)
(***************************************************************************)
\* Lines 446-462: the parts taken for positional values.
RECURSIVE PosValues(_, _, _, _)
PosValues(cmd_parts, j, n_base, param_mode) ==
  IF j > Len(cmd_parts) THEN <<>>
  ELSE IF j <= n_base THEN PosValues(cmd_parts, j + 1, n_base, param_mode)
  ELSE IF StartsWith(cmd_parts[j], "--") THEN PosValues(cmd_parts, j + 1, n_base, TRUE)
  ELSE IF param_mode THEN PosValues(cmd_parts, j + 1, n_base, FALSE)
  ELSE <<cmd_parts[j]>> \o PosValues(cmd_parts, j + 1, n_base, FALSE)

\* Lines 465-467
PosComponents(pos_values, pos_variables) ==
  LET keep == SelectSeq([i \in 1..Len(pos_values) |-> i],
                        LAMBDA i : i <= Len(pos_variables) /\ Len(pos_variables[i]) > 0)
  IN [n \in 1..Len(keep) |->
        "__pos" \o IntToStr(keep[n] - 1) \o "__" \o SEP \o pos_values[keep[n]]]

\* re.search(re.escape(arg_name) + '[= ]([^ ]+)', cmd): Some(group 1) or None.
RECURSIVE SearchValue(_, _, _)
SearchValue(cmd, arg_name, from) ==
  LET i == Find(cmd, arg_name, from)
      j == i + Len(arg_name)
  IN IF i = 0 THEN None
     ELSE IF j + 1 <= Len(cmd) /\ CharAt(cmd, j) \in {"=", " "} /\ CharAt(cmd, j + 1) # " "
          THEN Some(SubSeq(cmd, j + 1, RunEnd(cmd, j + 1, "nonspace")))
     ELSE SearchValue(cmd, arg_name, i + 1)

\* Lines 471-488
RandComponents(cmd, rand_variables) ==
  LET found == SelectSeq(rand_variables, LAMBDA e : SearchValue(cmd, e.key, 1) # None)
  IN [n \in 1..Len(found) |->
        LET value == The(SearchValue(cmd, found[n].key, 1))
        IN Keyname(found[n].key) \o SEP \o
             (IF found[n].val.param_type = "float" /\ _is_float(value)
              THEN FormatFloat(ToFloat(value)) ELSE value)]

\* Lines 491-497
GridComponents(cmd, variables) ==
  LET found == SelectSeq(variables,
                         LAMBDA e : e.key # "__trial__" /\ Len(e.val) > 0
                                      /\ SearchValue(cmd, e.key, 1) # None)
  IN [n \in 1..Len(found) |->
        Keyname(found[n].key) \o SEP \o The(SearchValue(cmd, found[n].key, 1))]

\* Lines 429-503: command number i of the batch with its tag appended.
TrialTagged(cmd, i, n_digits, a, var_sep, pos_variables, rand_variables, variables) ==
  LET pos_values == PosValues(SplitWs(cmd), 1, Len(SplitWs(a.command)), FALSE)
      tag_components ==
        <<a.jobname \o SEP \o ZeroPad(i, n_digits)>>
          \o PosComponents(pos_values, pos_variables)
          \o RandComponents(cmd, rand_variables)
          \o GridComponents(cmd, variables)
  IN cmd \o " " \o The(a.tag) \o var_sep \o Join(WSEP, tag_components)

(***************************************************************************)
(* The job file: None when there is no file, else Some(f) with f the JSON  *)
(* object, a function from the keys (strings) to <<command, tag>>.         *)
(***************************************************************************)

\* save_jobfile losing the record of the largest id.
save_jobfile_partial(jobs) ==
  LET kept == DOMAIN jobs \ (IF DOMAIN jobs = {} THEN {} ELSE {SetMax(DOMAIN jobs)})
  IN Some([k \in {IntToStr(i) : i \in kept} |-> jobs[ToInt(k)]])

\* utils.py 28-30: json.dump writes an integer key as its decimal string.
save_jobfile(jobs) ==
  Some([k \in {IntToStr(i) : i \in DOMAIN jobs} |-> jobs[ToInt(k)]])

\* load_jobfile taking the commands for the tags and the tags for the commands.
load_jobfile_swapped(file) ==
  LET ids == {ToInt(k) : k \in DOMAIN file}
      keyOf(i) == CHOOSE k \in DOMAIN file : ToInt(k) = i
  IN [cmds |-> [i \in ids |-> file[keyOf(i)][2]],
      tags |-> [i \in ids |-> file[keyOf(i)][1]]]

\* utils.py 20-26: the (cmds, tags) pair, keys converted to integers.
load_jobfile(file) ==
  LET ids == {ToInt(k) : k \in DOMAIN file}
      keyOf(i) == CHOOSE k \in DOMAIN file : ToInt(k) = i
  IN [cmds |-> [i \in ids |-> file[keyOf(i)][1]],
      tags |-> [i \in ids |-> file[keyOf(i)][2]]]

\* Lines 405-409 and 513-519: why the load fails, or "" when it succeeds.
LoadError(a, file) ==
  IF ~a.append THEN ""
  ELSE IF file = None THEN "FileNotFoundError"
  ELSE IF DOMAIN The(file) = {} THEN "ValueError"
  ELSE ""

\* Numbering from 1 whatever the file holds.
start_jobid_one(a, file) == 1

\* Lines 407, 409, 515, 519
start_jobid(a, file) ==
  IF a.append THEN SetMax(DOMAIN load_jobfile(The(file)).cmds) + 1 ELSE 1

(***************************************************************************)
(* The state: one run of meta_launch (its arguments, its locals, its       *)
(* position pc and how it ended), the job file and the history log it      *)
(* writes, and one direct call of _sample_random_value.                    *)
(***************************************************************************)
VARIABLES
  args,             \* the argparse namespace; tag_args is assigned at line 310
  disk,             \* the job file at jobfile_path
  history,          \* the number of history entries added
  pc,               \* the position in meta_launch
  status,           \* "running", "ok", "exit1" (sys.exit(1)) or the exception raised
  warnings,         \* the number of warnings raised
  VAR_SEP,
  variables,
  pos_variables,
  flag_variables,
  rand_variables,
  ri,               \* the index of the +randarg specification validated next
  trial_idx,
  trial_commands,
  cmd_prefix_list,
  cmd_suffix_list,
  stage,            \* the number of expansion stages of lines 317-396 done
  tag_list,
  jobs,
  call,             \* the arguments of the direct sampler call, or None
  ret,              \* what the direct sampler call returned, or None
  draws,            \* what the run's calls of _sample_random_value returned, in order
  appenders         \* two invocations appending to one job file, or None

locals == <<VAR_SEP, variables, pos_variables, flag_variables, rand_variables, ri,
            trial_idx, trial_commands, cmd_prefix_list, cmd_suffix_list, stage,
            tag_list, jobs>>

vars == <<args, disk, history, pc, status, warnings, locals, call, ret, draws, appenders>>

(***************************************************************************)
(* The inputs.                                                             *)
(***************************************************************************)
GridArgs == {<<>>, <<<<"--a", "1", "2">>>>, <<<<"--a", "1", "2">>, <<"--b">>>>}

PosArgs == {<<>>, <<<<"x", "y">>>>}

FlagArgs == {<<>>, <<"--f">>}

\* +randarg lists that pass lines 137-243.
ValidRandargs ==
  { <<<<"--n", "int", "1", "3">>>>,
    <<<<"--lr", "float", "0.123454", "0.5">>>>,
    <<<<"--opt", "choice", "[adam,sgd]">>>>,
    <<<<"--n", "int", "1", "2">>, <<"--opt", "choice", "adam, sgd,">>>> }

\* +randarg lists probing the checks of lines 137-243 one by one, alone and
\* after a valid specification.
EdgeRandargs ==
  { <<<<"--n", "int">>>>,
    <<<<"--n", "int", "1">>>>,
    <<<<"--n", "int", "x", "3">>>>,
    <<<<"--n", "int", "3", "1">>>>,
    <<<<"--n", "int", "2", "2">>>>,
    <<<<"--lr", "float", "0.5", "abc">>>>,
    <<<<"--lr", "float", "0.5", "0.1">>>>,
    <<<<"--lr", "float", "0.001", "0.1", "log">>>>,
    <<<<"--x", "bogus", "1", "2">>>>,
    <<<<"--opt", "choice", "[]">>>>,
    <<<<"--opt", "choice", ",">>>>,
    <<<<"--opt", "choice", "adam">>>>,
    <<<<"--opt", "choice", "[adam]">>>>,
    <<<<"--opt", "choice", "[adam,sgd">>>>,
    <<<<"--opt", "choice", "adam,sgd]">>>>,
    <<<<"--opt", "CHOICE", "adam,", "9">>>>,
    <<<<"--opt", "CHOICE", "adam,">>>>,
    <<<<"--n", "int", "1", "2", "extra">>>>,
    <<<<"--lr", "float", "0.001", "0.1", "log", "extra">>>>,
    <<<<"--lr", "float", "0.1", "0.5", "linear">>>>,
    <<<<"--lr", "float", "0.1", "0.5">>>>,
    <<<<"--n", "int", "1", "3">>, <<"--lr", "float", "1">>>>,
    <<<<"--n", "int", "1", "3">>, <<"--opt", "choice", "[ ]">>>>,
    <<<<"--n", "int", "1", "3">>, <<"--m", "int", "5", "4">>>> }

TagChoices ==
  {[tag |-> None, tag_args |-> None, no_tag_number |-> FALSE],
   [tag |-> Some(""), tag_args |-> None, no_tag_number |-> FALSE]}
  \cup [tag : {Some("--tag")}, tag_args : {None, Some(<<"--a">>), Some(<<"--zz">>)},
        no_tag_number : BOOLEAN]

NoTagging == [tag |-> None, tag_args |-> None, no_tag_number |-> FALSE]

\* A job file written by an earlier run: ids 1..n, or one id of two digits
\* after a gap.
StoredJobs(ids) == [i \in ids |-> <<"old" \o IntToStr(i), "oldtag" \o IntToStr(i)>>]

Disks ==
  {None, save_jobfile(StoredJobs({}))}
    \cup {save_jobfile(StoredJobs(1..n)) : n \in 1..MaxExisting}
    \cup {save_jobfile(StoredJobs({MaxExisting + 9}))}

\* The arguments of one call of meta_launch.
SweepArgs(am, g, p, f, r, t, tc, ap) ==
  [command |-> "echo", arg_mode |-> am, arg |-> g, pos_arg |-> p, flag |-> f,
   randarg |-> r, trials |-> t, tag |-> tc.tag, tag_args |-> tc.tag_args,
   no_tag_number |-> tc.no_tag_number, append |-> ap, jobname |-> "job"]

\* The calls explored, each with the job file it finds: every mix of grid,
\* positional and flag parameters and tagging on a fresh path; every kind of
\* random parameter; the other argument modes; every earlier job file with
\* and without append; the +randarg checks; tagging while appending;
\* tag-bearing names that are no parameter; a parameter name that ends
\* another parameter's name.
Launches ==
  {<<SweepArgs("argparse", g, p, f, r, t, tc, FALSE), None>> :
     g \in GridArgs, p \in PosArgs, f \in FlagArgs,
     r \in {None, Some(<<<<"--n", "int", "1", "2">>>>)}, t \in 1..MaxTrials,
     tc \in TagChoices}
  \cup
  {<<SweepArgs("argparse", <<<<"--a", "1", "2">>, <<"--b">>>>, <<<<"x", "y">>>>, f, Some(r),
               t, tc, FALSE), None>> :
     f \in FlagArgs, r \in ValidRandargs, t \in 1..MaxTrials,
     tc \in {NoTagging,
             [tag |-> Some("--tag"), tag_args |-> None, no_tag_number |-> FALSE],
             [tag |-> Some("--tag"), tag_args |-> Some(<<"--a">>), no_tag_number |-> TRUE]}}
  \cup
  {<<SweepArgs(am, <<<<"--a", "1", "2">>>>, p, <<>>, r, t, tc, FALSE), None>> :
     am \in {"hydra", "bash"}, p \in PosArgs,
     r \in {None, Some(<<<<"--lr", "float", "0.123454", "0.5">>>>)},
     t \in 1..MaxTrials,
     tc \in {NoTagging, [tag |-> Some("--tag"), tag_args |-> None, no_tag_number |-> FALSE]}}
  \cup
  {<<SweepArgs("argparse", g, <<>>, <<>>, r, t, NoTagging, ap), d>> :
     g \in {<<>>, <<<<"--a", "1", "2">>>>},
     r \in {None, Some(<<<<"--n", "int", "1", "2">>>>)}, t \in 1..MaxTrials,
     ap \in BOOLEAN, d \in Disks}
  \cup
  {<<SweepArgs("argparse", <<>>, <<>>, <<>>, Some(r), t, NoTagging, ap), d>> :
     r \in EdgeRandargs, t \in 1..MaxTrials, ap \in BOOLEAN,
     d \in {None, save_jobfile(StoredJobs({1}))}}
  \cup
  {<<SweepArgs("argparse", g, <<>>, <<>>, r, t,
               [tag |-> Some("--tag"), tag_args |-> None, no_tag_number |-> nn], TRUE), d>> :
     g \in {<<>>, <<<<"--a", "1", "2">>>>},
     r \in {None, Some(<<<<"--n", "int", "1", "2">>>>)}, t \in 1..MaxTrials,
     nn \in BOOLEAN, d \in {None, save_jobfile(StoredJobs(1..MaxExisting))}}
  \cup
  {<<SweepArgs("argparse", g, p, <<>>, r, t,
               [tag |-> Some("--tag"), tag_args |-> Some(ta), no_tag_number |-> FALSE],
               FALSE), None>> :
     g \in {<<<<"--a", "1", "2">>>>, <<<<"--a", "1", "2">>, <<"--b">>>>}, p \in PosArgs,
     r \in {None, Some(<<<<"--n", "int", "1", "2">>>>)}, t \in 1..MaxTrials,
     ta \in {<<"--a", "--zz">>, <<>>}}
  \cup
  {<<SweepArgs("hydra", <<<<n[1], "5", "6">>>>, <<>>, <<>>,
               Some(<<<<n[2], "choice", "[adam]">>>>), t,
               [tag |-> Some("--tag"), tag_args |-> None, no_tag_number |-> FALSE],
               FALSE), None>> :
     n \in {<<"model.lr", "lr">>, <<"lr", "model.lr">>}, t \in 1..MaxTrials}

IdleLocals ==
  /\ VAR_SEP = ""
  /\ variables = <<>>
  /\ pos_variables = <<>>
  /\ flag_variables = <<>>
  /\ rand_variables = <<>>
  /\ ri = 1
  /\ trial_idx = 0
  /\ trial_commands = <<>>
  /\ cmd_prefix_list = <<>>
  /\ cmd_suffix_list = None
  /\ stage = 0
  /\ tag_list = <<>>
  /\ jobs = <<>>
  /\ draws = <<>>

InitLaunch ==
  /\ \E l \in Launches : args = l[1] /\ disk = l[2]
  /\ history = 0
  /\ pc = "start"
  /\ status = "running"
  /\ warnings = 0
  /\ IdleLocals
  /\ call = None
  /\ ret = None
  /\ appenders = None

(***************************************************************************)
(* meta_launch, step by step.                                              *)
(***************************************************************************)
Running(at) == pc = at /\ status = "running" /\ call = None

Frame == UNCHANGED <<call, ret, appenders>>

\* A step that does not call _sample_random_value.
NoDraw == UNCHANGED draws

\* The run ends without reaching save_jobfile: sys.exit(1) or an exception.
Abort(how) == pc' = "exit" /\ status' = how

\* Line 134
num_trials == args.trials

\* The stages of lines 317-396 in order: positional, named, flag.
NamedStages == SelectSeq(variables, LAMBDA e : e.key # "__trial__")

NumStages == Len(pos_variables) + Len(NamedStages) + Len(flag_variables)

\* Lines 103-134: the parameter tables.
Start ==
  /\ Running("start")
  /\ IF args.arg_mode \notin {"argparse", "hydra"}
     THEN /\ Abort("NotImplementedError")
          /\ UNCHANGED <<VAR_SEP, variables, pos_variables, flag_variables>>
     ELSE /\ VAR_SEP' = (IF args.arg_mode = "argparse" THEN " " ELSE "=")
          /\ variables' = DictOfArgs(args.arg)
          /\ pos_variables' = args.pos_arg
          /\ flag_variables' = args.flag
          /\ pc' = (IF args.randarg # None THEN "validate" ELSE "grid")
          /\ UNCHANGED status
  /\ UNCHANGED <<args, disk, history, warnings, rand_variables, ri, trial_idx,
                 trial_commands, cmd_prefix_list, cmd_suffix_list, stage, tag_list, jobs>>
  /\ Frame /\ NoDraw

\* Lines 137-243: one pass of the validation loop.
Validate ==
  /\ Running("validate")
  /\ ri <= Len(The(args.randarg))
  /\ LET rand_arglist == The(args.randarg)[ri]
         v == ValidateRandarg(rand_arglist)
     IN IF v.fatal
        THEN /\ Abort("exit1")
             /\ UNCHANGED <<warnings, rand_variables, ri>>
        ELSE /\ rand_variables' = DictSet(rand_variables, rand_arglist[1], The(v.entry))
             /\ warnings' = warnings + v.warnings
             /\ ri' = ri + 1
             /\ UNCHANGED <<pc, status>>
  /\ UNCHANGED <<args, disk, history, VAR_SEP, variables, pos_variables, flag_variables,
                 trial_idx, trial_commands, cmd_prefix_list, cmd_suffix_list, stage,
                 tag_list, jobs>>
  /\ Frame /\ NoDraw

\* Lines 246-249: more than one trial.
BeginTrials ==
  /\ Running("validate")
  /\ ri > Len(The(args.randarg))
  /\ num_trials > 1
  /\ variables' = DictSet(variables, "__trial__", [i \in 1..num_trials |-> i - 1])
  /\ trial_commands' = <<>>
  /\ trial_idx' = 0
  /\ pc' = "trials"
  /\ UNCHANGED <<args, disk, history, status, warnings, VAR_SEP, pos_variables,
                 flag_variables, rand_variables, ri, cmd_prefix_list, cmd_suffix_list,
                 stage, tag_list, jobs>>
  /\ Frame /\ NoDraw

\* Lines 252-288: one trial.
RunTrial ==
  /\ Running("trials")
  /\ trial_idx < num_trials
  /\ \E outcomes \in SampleAll(rand_variables) :
       LET trial_values == [i \in 1..Len(rand_variables) |->
                              [key |-> rand_variables[i].key, val |-> outcomes[i].value]]
       IN /\ trial_commands' = trial_commands \o
               TrialCommands(args.command, pos_variables, variables, trial_values, VAR_SEP)
          /\ warnings' = warnings + SumWarnings(outcomes)
          /\ draws' = draws \o trial_values
  /\ trial_idx' = trial_idx + 1
  /\ pc' = (IF trial_idx + 1 = num_trials THEN "grid" ELSE "trials")
  /\ UNCHANGED <<args, disk, history, status, VAR_SEP, variables, pos_variables,
                 flag_variables, rand_variables, ri, cmd_prefix_list, cmd_suffix_list,
                 stage, tag_list, jobs>>
  /\ Frame

\* DictSet over the random parameters, in order.
RECURSIVE SetSampled(_, _, _)
SetSampled(vs, rvs, outcomes) ==
  IF rvs = <<>> THEN vs
  ELSE SetSampled(DictSet(vs, Head(rvs).key, <<Head(outcomes).value>>),
                  Tail(rvs), Tail(outcomes))

\* Lines 289-292: a single trial; each random parameter becomes a grid
\* parameter with one value.
SampleSingle ==
  /\ Running("validate")
  /\ ri > Len(The(args.randarg))
  /\ num_trials <= 1
  /\ \E outcomes \in SampleAll(rand_variables) :
       /\ variables' = SetSampled(variables, rand_variables, outcomes)
       /\ warnings' = warnings + SumWarnings(outcomes)
       /\ draws' = draws \o [i \in 1..Len(rand_variables) |->
                              [key |-> rand_variables[i].key, val |-> outcomes[i].value]]
  /\ pc' = "grid"
  /\ UNCHANGED <<args, disk, history, status, VAR_SEP, pos_variables, flag_variables,
                 rand_variables, ri, trial_idx, trial_commands, cmd_prefix_list,
                 cmd_suffix_list, stage, tag_list, jobs>>
  /\ Frame

\* Line 294
base_cmd_args == DictKeys(variables)

\* Lines 297-298: the trial commands replace the grid processing.
UseTrialCommands ==
  /\ Running("grid")
  /\ trial_commands # <<>>
  /\ cmd_prefix_list' = trial_commands
  /\ pc' = "tag"
  /\ UNCHANGED <<args, disk, history, status, warnings, VAR_SEP, variables, pos_variables,
                 flag_variables, rand_variables, ri, trial_idx, trial_commands,
                 cmd_suffix_list, stage, tag_list, jobs>>
  /\ Frame /\ NoDraw

\* Lines 299-315: the grid processing begins.
BeginGrid ==
  /\ Running("grid")
  /\ trial_commands = <<>>
  /\ IF args.tag = Some("")
     THEN /\ Abort("ValueError")
          /\ UNCHANGED <<args, warnings, cmd_prefix_list, cmd_suffix_list>>
     ELSE /\ cmd_prefix_list' = <<args.command>>
          /\ IF args.tag # None
             THEN /\ cmd_suffix_list' = Some(<<"">>)
                  /\ IF args.tag_args = None
                     THEN /\ args' = [args EXCEPT !.tag_args =
                                 Some(SelectSeq(base_cmd_args, LAMBDA k : k # "__trial__"))]
                          /\ UNCHANGED warnings
                     ELSE /\ warnings' = warnings + Cardinality(
                                 {n \in 1..Len(The(args.tag_args)) :
                                    The(args.tag_args)[n] \notin Range(base_cmd_args)})
                          /\ UNCHANGED args
             ELSE UNCHANGED <<args, warnings, cmd_suffix_list>>
          /\ pc' = (IF NumStages = 0 THEN "tag" ELSE "expand")
          /\ UNCHANGED status
  /\ UNCHANGED <<disk, history, VAR_SEP, variables, pos_variables, flag_variables,
                 rand_variables, ri, trial_idx, trial_commands, stage, tag_list, jobs>>
  /\ Frame /\ NoDraw

AfterStage ==
  /\ stage' = stage + 1
  /\ pc' = (IF stage + 1 = NumStages THEN "tag" ELSE "expand")
  /\ UNCHANGED <<args, disk, history, status, warnings, VAR_SEP, variables, pos_variables,
                 flag_variables, rand_variables, ri, trial_idx, trial_commands, tag_list,
                 jobs>>
  /\ Frame /\ NoDraw

\* Lines 318-328: one positional parameter.
ExpandPositionalStage ==
  /\ Running("expand")
  /\ stage < Len(pos_variables)
  /\ LET value_list == pos_variables[stage + 1]
     IN /\ cmd_prefix_list' = ExpandPositional(cmd_prefix_list, value_list)
        /\ cmd_suffix_list' =
             (IF args.tag # None
              THEN Some(SuffixPositional(The(cmd_suffix_list), value_list))
              ELSE cmd_suffix_list)
  /\ AfterStage

\* Lines 331-379: one named parameter.
ExpandNamedStage ==
  /\ Running("expand")
  /\ stage >= Len(pos_variables)
  /\ stage < Len(pos_variables) + Len(NamedStages)
  /\ LET e == NamedStages[stage - Len(pos_variables) + 1]
     IN /\ cmd_prefix_list' = ExpandNamed(cmd_prefix_list, e.key, e.val, VAR_SEP)
        /\ cmd_suffix_list' =
             (IF args.tag # None
              THEN Some(SuffixNamed(The(cmd_suffix_list), e.key, e.val,
                                    The(args.tag_args), rand_variables))
              ELSE cmd_suffix_list)
  /\ AfterStage

\* Lines 382-396: one flag.
ExpandFlagStage ==
  /\ Running("expand")
  /\ stage >= Len(pos_variables) + Len(NamedStages)
  /\ stage < NumStages
  /\ LET flag == flag_variables[stage - Len(pos_variables) - Len(NamedStages) + 1]
     IN /\ cmd_prefix_list' = ExpandFlag(cmd_prefix_list, flag)
        /\ cmd_suffix_list' =
             (IF args.tag # None
              THEN Some(SuffixFlag(The(cmd_suffix_list), flag))
              ELSE cmd_suffix_list)
  /\ AfterStage

\* zip(xs, ys) stops at the shorter list.
ZipLen(xs, ys) == Min2(Len(xs), Len(ys))

\* Lines 411-416: the numbered tags.
NumberedTags(jobname, suffix_list, first) ==
  LET n_digits == Len(IntToStr(first + Len(suffix_list) - 1))
  IN [i \in 1..Len(suffix_list) |->
        jobname \o SEP \o ZeroPad(first + i - 1, n_digits) \o suffix_list[i]]

\* Line 401
PlainTags(jobname, suffix_list) == MapSeq(suffix_list, LAMBDA suffix : jobname \o suffix)

\* Lines 399-421: the tags of the grid processing (no trial commands).
TagGrid ==
  /\ Running("tag")
  /\ args.tag # None
  /\ trial_commands = <<>>
  /\ IF ~args.no_tag_number /\ LoadError(args, disk) # ""
     THEN /\ Abort(LoadError(args, disk))
          /\ UNCHANGED <<cmd_prefix_list, tag_list>>
     ELSE LET tags == IF args.no_tag_number
                      THEN PlainTags(args.jobname, The(cmd_suffix_list))
                      ELSE NumberedTags(args.jobname, The(cmd_suffix_list),
                                        start_jobid(args, disk))
          IN /\ tag_list' = tags
             /\ cmd_prefix_list' =
                  [i \in 1..ZipLen(cmd_prefix_list, tags) |->
                     cmd_prefix_list[i] \o " " \o The(args.tag) \o VAR_SEP \o tags[i]]
             /\ pc' = "merge"
             /\ UNCHANGED status
  /\ UNCHANGED <<args, disk, history, warnings, VAR_SEP, variables, pos_variables,
                 flag_variables, rand_variables, ri, trial_idx, trial_commands,
                 cmd_suffix_list, stage, jobs>>
  /\ Frame /\ NoDraw

\* Lines 424-506: the tags of the trial commands.
TagTrials ==
  /\ Running("tag")
  /\ args.tag # None
  /\ trial_commands # <<>>
  /\ LET n_digits == Len(IntToStr(num_trials))
     IN cmd_prefix_list' =
          [i \in 1..Len(cmd_prefix_list) |->
             TrialTagged(cmd_prefix_list[i], i, n_digits, args, VAR_SEP, pos_variables,
                         rand_variables, variables)]
  /\ tag_list' = [i \in 1..Len(cmd_prefix_list) |-> ""]
  /\ pc' = "merge"
  /\ UNCHANGED <<args, disk, history, status, warnings, VAR_SEP, variables, pos_variables,
                 flag_variables, rand_variables, ri, trial_idx, trial_commands,
                 cmd_suffix_list, stage, jobs>>
  /\ Frame /\ NoDraw

\* Lines 507-508: no tagging.
NoTag ==
  /\ Running("tag")
  /\ args.tag = None
  /\ tag_list' = [i \in 1..Len(cmd_prefix_list) |-> ""]
  /\ pc' = "merge"
  /\ UNCHANGED <<args, disk, history, status, warnings, VAR_SEP, variables, pos_variables,
                 flag_variables, rand_variables, ri, trial_idx, trial_commands,
                 cmd_prefix_list, cmd_suffix_list, stage, jobs>>
  /\ Frame /\ NoDraw

\* The file's records kept without append too.
ExistingJobsAlways(a, file) ==
  IF file = None THEN <<>>
  ELSE LET l == load_jobfile(The(file)) IN [i \in DOMAIN l.cmds |-> <<l.cmds[i], l.tags[i]>>]

\* Nothing taken over from the file.
ExistingJobsNone(a, file) == <<>>

\* Lines 513-519: the records the new ones are merged into.
ExistingJobs(a, file) ==
  IF a.append
  THEN LET l == load_jobfile(The(file)) IN [i \in DOMAIN l.cmds |-> <<l.cmds[i], l.tags[i]>>]
  ELSE <<>>

\* Lines 521-524: jobs[i] = (cmd, tag) over enumerate(zip(...), start_jobid).
AddJobs(existing, cmds, tags, first) ==
  LET n == ZipLen(cmds, tags)
  IN [i \in first..(first + n - 1) |-> <<cmds[i - first + 1], tags[i - first + 1]>>]
       @@ existing

\* Lines 510-524
MergeJobs ==
  /\ Running("merge")
  /\ IF LoadError(args, disk) # ""
     THEN /\ Abort(LoadError(args, disk))
          /\ UNCHANGED jobs
     ELSE /\ jobs' = AddJobs(ExistingJobs(args, disk), cmd_prefix_list, tag_list,
                             start_jobid(args, disk))
          /\ pc' = "save"
          /\ UNCHANGED status
  /\ UNCHANGED <<args, disk, history, warnings, VAR_SEP, variables, pos_variables,
                 flag_variables, rand_variables, ri, trial_idx, trial_commands,
                 cmd_prefix_list, cmd_suffix_list, stage, tag_list>>
  /\ Frame /\ NoDraw

\* Line 526
SaveJobfile ==
  /\ Running("save")
  /\ disk' = save_jobfile(jobs)
  /\ pc' = "history"
  /\ UNCHANGED <<args, history, status, warnings, locals>>
  /\ Frame /\ NoDraw

\* Line 527, and the return.
AddHistory ==
  /\ Running("history")
  /\ history' = history + 1
  /\ pc' = "done"
  /\ status' = "ok"
  /\ UNCHANGED <<args, disk, warnings, locals>>
  /\ Frame /\ NoDraw

(***************************************************************************)
(* A direct call of _sample_random_value, as the tests make it.            *)
(***************************************************************************)
FloatBounds ==
  { <<"0.1", "0.5">>, <<"0.123454", "0.5">>, <<"0.1234561", "0.2">>,
    <<"12345.67", "12346.67">>, <<"0.0001234561", "0.0005">>, <<"0.0005", "0.002">>,
    <<"9999.5", "10000.5">>, <<"-0.5", "0.5">>, <<"-2", "-1">>, <<"0.5", "0.1">>,
    <<"abc", "0.5">>, <<"0.1", "">> }

SamplerCalls ==
  [param_type : {"int", "INT"}, min_val : {"1", "3", "-2", "x"}, max_val : {"3", "5", "1", "1.5"},
   sampling_space : {"linear"}]
  \cup
  {[param_type |-> "float", min_val |-> b[1], max_val |-> b[2], sampling_space |-> sp] :
     b \in FloatBounds, sp \in {"linear", "log"}}
  \cup
  [param_type : {"choice", "Choice"},
   min_val : {"[red, green, blue]", "red, green, blue", "[adam,sgd", "adam", "[a,,b]",
              "[]", ",", " x ,"},
   max_val : {""}, sampling_space : {"linear"}]
  \cup
  [param_type : {"invalid"}, min_val : {"fallback"}, max_val : {"10"},
   sampling_space : {"linear"}]

InitSampler ==
  /\ call \in {Some(c) : c \in SamplerCalls}
  /\ ret = None
  /\ args = None
  /\ disk = None
  /\ history = 0
  /\ pc = "sampler"
  /\ status = "running"
  /\ warnings = 0
  /\ IdleLocals
  /\ appenders = None

SampleCall ==
  /\ call # None
  /\ ret = None
  /\ \E o \in _sample_random_value(The(call).param_type, The(call).min_val,
                                   The(call).max_val, The(call).sampling_space) :
       /\ ret' = Some(o)
       /\ warnings' = warnings + o.warnings
  /\ UNCHANGED <<args, disk, history, pc, status, locals, call, draws, appenders>>

Init == InitLaunch \/ InitSampler

Next ==
  \/ Start
  \/ Validate
  \/ BeginTrials
  \/ RunTrial
  \/ SampleSingle
  \/ UseTrialCommands
  \/ BeginGrid
  \/ ExpandPositionalStage
  \/ ExpandNamedStage
  \/ ExpandFlagStage
  \/ TagGrid
  \/ TagTrials
  \/ NoTag
  \/ MergeJobs
  \/ SaveJobfile
  \/ AddHistory
  \/ SampleCall

Spec == Init /\ [][Next]_vars

NextSampler == SampleCall

SpecSampler == InitSampler /\ [][NextSampler]_vars

(***************************************************************************)
(* Two invocations of meta_launch with append set, on one job file path.   *)
(* Each has generated its batch and runs lines 510-527: it loads the file  *)
(* and merges (513-524), writes the file (526), adds its history entry     *)
(* (527).  Nothing coordinates the two: their steps interleave freely.     *)
(* The load and the write are each one step: a load that meets a half      *)
(* written file is not explored.                                           *)
(***************************************************************************)
Invocations == 1..2

\* The batches an invocation brings: commands with their tags.
Batches(p) ==
  LET name == IF p = 1 THEN "a" ELSE "b"
  IN {[i \in 1..n |-> <<"echo " \o name \o IntToStr(i), name \o IntToStr(i)>>] : n \in 1..2}

\* at: "load", "write", "history", "done", or the error the load raised;
\* found, seen, order: the ids the load found in the file, the number of
\* writes made before the load, and the rank of the invocation's own write.
Appender(batch) ==
  [at |-> "load", batch |-> batch, start_jobid |-> 0, jobs |-> <<>>,
   found |-> {}, seen |-> 0, order |-> 0]

Writes == Cardinality({p \in Invocations : appenders[p].order > 0})

InitAppend ==
  /\ args = None
  /\ disk \in Disks
  /\ history = 0
  /\ pc = "append"
  /\ status = "running"
  /\ warnings = 0
  /\ IdleLocals
  /\ call = None
  /\ ret = None
  /\ \E b1 \in Batches(1), b2 \in Batches(2) : appenders = <<Appender(b1), Appender(b2)>>

\* Lines 513-524
AppendLoad(p) ==
  /\ appenders # None
  /\ appenders[p].at = "load"
  /\ LET me == appenders[p]
         a == [append |-> TRUE]
         cmds == [i \in 1..Len(me.batch) |-> me.batch[i][1]]
         tags == [i \in 1..Len(me.batch) |-> me.batch[i][2]]
     IN IF LoadError(a, disk) # ""
        THEN appenders' = [appenders EXCEPT ![p].at = LoadError(a, disk)]
        ELSE appenders' = [appenders EXCEPT ![p] =
               [me EXCEPT !.at = "write",
                          !.start_jobid = start_jobid(a, disk),
                          !.jobs = AddJobs(ExistingJobs(a, disk), cmds, tags,
                                           start_jobid(a, disk)),
                          !.found = {ToInt(k) : k \in DOMAIN The(disk)},
                          !.seen = Writes]]
  /\ UNCHANGED <<disk, history>>
  /\ UNCHANGED <<args, pc, status, warnings, locals, call, ret, draws>>

\* Line 526
AppendWrite(p) ==
  /\ appenders # None
  /\ appenders[p].at = "write"
  /\ disk' = save_jobfile(appenders[p].jobs)
  /\ appenders' = [appenders EXCEPT ![p].at = "history", ![p].order = Writes + 1]
  /\ UNCHANGED history
  /\ UNCHANGED <<args, pc, status, warnings, locals, call, ret, draws>>

\* Line 527
AppendHistory(p) ==
  /\ appenders # None
  /\ appenders[p].at = "history"
  /\ history' = history + 1
  /\ appenders' = [appenders EXCEPT ![p].at = "done"]
  /\ UNCHANGED disk
  /\ UNCHANGED <<args, pc, status, warnings, locals, call, ret, draws>>

NextAppend ==
  \E p \in Invocations : AppendLoad(p) \/ AppendWrite(p) \/ AppendHistory(p)

SpecAppend == InitAppend /\ [][NextAppend]_vars

(***************************************************************************)
(* Observations the properties below are stated with.                      *)
(***************************************************************************)
\* The state is part of a run of meta_launch (not a direct sampler call).
Launched == args # None

\* The step that writes the job file.
Saving == Launched /\ pc = "save" /\ pc' = "history"

\* The ids of a job file as integers.
FileIds(file) == {ToInt(k) : k \in DOMAIN The(file)}

RECURSIVE ProductOf(_)
ProductOf(lens) == IF lens = <<>> THEN 1 ELSE Head(lens) * ProductOf(Tail(lens))

\* trials x grid value-list lengths (a toggle counts 1) x positional
\* value-list lengths x 2^flags.
CountLaw(a) ==
  a.trials
    * ProductOf([i \in 1..Len(a.arg) |-> IF Len(a.arg[i]) = 1 THEN 1 ELSE Len(a.arg[i]) - 1])
    * ProductOf([i \in 1..Len(a.pos_arg) |-> Len(a.pos_arg[i])])
    * Pow2(Len(a.flag))

\* C1: every run that writes the job file adds
\* trials x prod(grid lengths, empty = 1) x prod(positional lengths) x 2^flags
\* records to it.
C1_RecordCount ==
  [][Saving =>
       Cardinality(DOMAIN The(disk'))
         - (IF args.append THEN Cardinality(DOMAIN The(disk)) ELSE 0) = CountLaw(args)]_vars

\* C2: in append mode the written file keeps every prior record under its id
\* with command and tag unchanged, and the m new records take the ids
\* k+1 .. k+m, k the largest prior id, in the order the commands were made.
C2_AppendContinuesIds ==
  [][(Saving /\ args.append) =>
       LET old == The(disk)
           new == The(disk')
           k == SetMax(FileIds(disk))
           m == Len(cmd_prefix_list)
       IN /\ \A id \in DOMAIN old : id \in DOMAIN new /\ new[id] = old[id]
          /\ FileIds(disk') = FileIds(disk) \cup ((k + 1)..(k + m))
          /\ Cardinality(DOMAIN new) = Cardinality(DOMAIN old) + m
          /\ \A i \in 1..m :
               new[IntToStr(k + i)] = <<cmd_prefix_list[i], tag_list[i]>>]_vars

\* An append run has written two or more new records after a job file that
\* held records, some under ids with a gap below them.
C2_Witness ==
  /\ Launched /\ args.append /\ pc = "history"
  /\ Len(cmd_prefix_list) >= 2
  /\ Cardinality(DOMAIN The(disk)) > Len(cmd_prefix_list)
  /\ SetMax(FileIds(disk)) > Cardinality(DOMAIN The(disk))

\* C3: without append the written file holds exactly the m new records under
\* the ids 1..m in the order the commands were made, whatever the path held.
C3_OverwriteFromOne ==
  [][(Saving /\ ~args.append) =>
       LET new == The(disk')
           m == Len(cmd_prefix_list)
       IN /\ FileIds(disk') = 1..m
          /\ Cardinality(DOMAIN new) = m
          /\ \A i \in 1..m : new[IntToStr(i)] = <<cmd_prefix_list[i], tag_list[i]>>]_vars

\* A run without append has merged two or more new records and is at the
\* write, the path holding a record under an id beyond theirs.
C3_Witness ==
  /\ Launched /\ ~args.append /\ pc = "save"
  /\ Len(cmd_prefix_list) >= 2
  /\ DOMAIN jobs = 1..Len(cmd_prefix_list)
  /\ disk # None /\ \E id \in FileIds(disk) : id > Len(cmd_prefix_list)

\* C4: with tagging requested and auto-numbering on, the tag strings of the
\* records one run adds are pairwise distinct, for one trial and for more.
C4_TagsDistinct ==
  (Launched /\ pc \in {"history", "done"} /\ ~args.append
     /\ args.tag # None /\ ~args.no_tag_number)
    => \A i, j \in DOMAIN The(disk) : i # j => The(disk)[i][2] # The(disk)[j][2]

\* The fatal errors of a +randarg specification that C5 lists.
ListedFatal(rand_arglist) ==
  \/ Len(rand_arglist) < 3
  \/ /\ Len(rand_arglist) >= 3
     /\ LET kind == Lower(rand_arglist[2])
        IN \/ kind = "choice" /\ ParseChoices(rand_arglist[3]) = <<>>
           \/ /\ kind \in {"int", "float"}
              /\ \/ Len(rand_arglist) < 4
                 \/ /\ Len(rand_arglist) >= 4
                    /\ IF kind = "int"
                       THEN \/ ~_is_int(rand_arglist[3]) \/ ~_is_int(rand_arglist[4])
                            \/ ToInt(rand_arglist[3]) >= ToInt(rand_arglist[4])
                       ELSE \/ ~_is_float(rand_arglist[3]) \/ ~_is_float(rand_arglist[4])
                            \/ DecLeq(ToFloat(rand_arglist[4]), ToFloat(rand_arglist[3]))

HasListedFatal ==
  /\ Launched /\ args.randarg # None
  /\ args.arg_mode \in {"argparse", "hydra"}
  /\ \E i \in 1..Len(The(args.randarg)) : ListedFatal(The(args.randarg)[i])

\* C5: a run given a +randarg specification with one of the listed errors,
\* first or after valid ones, only passes through validation to exit(1): it
\* never writes the job file and never adds a history entry.
C5_FatalBeforeWrites ==
  [][HasListedFatal =>
       /\ pc' \in {"validate", "exit"}
       /\ pc' = "exit" => status' = "exit1"
       /\ disk' = disk
       /\ history' = 0]_vars

\* A run has exited on a bad specification that followed a valid one, the
\* job file it found still in place.
C5_Witness ==
  /\ HasListedFatal /\ pc = "exit" /\ status = "exit1"
  /\ ri = 2 /\ Len(rand_variables) = 1
  /\ disk # None /\ history = 0

\* Brackets on one side only.
UnbalancedBrackets(text) == StartsWith(text, "[") # EndsWith(text, "]")

\* The validation loop is at a choice specification.
AtChoice ==
  /\ Launched /\ pc = "validate" /\ status = "running"
  /\ ri <= Len(The(args.randarg))
  /\ Len(The(args.randarg)[ri]) >= 3
  /\ Lower(The(args.randarg)[ri][2]) = "choice"

ChoiceText == The(args.randarg)[ri][3]

\* C6 as the specification states it: a choice specification is fatal exactly
\* when its text parses to no candidate or has malformed brackets; a single
\* bare candidate is accepted.
C6_FatalIffNoCandidate ==
  [][AtChoice =>
       (pc' = "exit" <=> (ParseChoices(ChoiceText) = <<>> \/ UnbalancedBrackets(ChoiceText)))]_vars

\* C6 as the code has it: a choice specification is fatal exactly when its
\* text is neither bracketed nor holds a comma, or parses to no candidate;
\* otherwise it is registered as a choice parameter over that text.
C6_FatalIffNoListForm ==
  [][AtChoice =>
       LET listForm == \/ StartsWith(ChoiceText, "[") /\ EndsWith(ChoiceText, "]")
                       \/ Contains(ChoiceText, ",")
           fatal == ~listForm \/ ParseChoices(ChoiceText) = <<>>
           key == The(args.randarg)[ri][1]
       IN IF fatal
          THEN pc' = "exit" /\ status' = "exit1" /\ rand_variables' = rand_variables
          ELSE /\ pc' = "validate" /\ ri' = ri + 1
               /\ DictHas(rand_variables', key)
               /\ DictGet(rand_variables', key).param_type = "choice"
               /\ DictGet(rand_variables', key).min_val = ChoiceText]_vars

\* A run has exited on a choice specification whose text is one bare
\* candidate.
C6_Witness ==
  /\ Launched /\ pc = "exit" /\ status = "exit1" /\ args.randarg # None
  /\ ri <= Len(The(args.randarg))
  /\ Len(The(args.randarg)[ri]) >= 3
  /\ Lower(The(args.randarg)[ri][2]) = "choice"
  /\ Len(ParseChoices(ChoiceText)) = 1
  /\ ~Contains(ChoiceText, ",") /\ ~UnbalancedBrackets(ChoiceText)

\* C7: a run asked for the empty tag selector never writes the job file and
\* never adds a history entry, for one trial and for more, with and without
\* random parameters.
C7_EmptyTagFatal ==
  (Launched /\ args.tag = Some("") /\ args.arg_mode \in {"argparse", "hydra"})
    => /\ pc \notin {"merge", "save", "history", "done"}
       /\ history = 0
       /\ status \in {"running", "ValueError"}

\* The tokens that follow the name token in a command ("--n 2"), or that
\* follow "name=" in a token ("--n=2").
ValuesIn(parts, name) ==
  {parts[i + 1] : i \in {j \in 1..(Len(parts) - 1) : parts[j] = name}}
    \cup {StrFrom(parts[i], Len(name) + 2) :
            i \in {j \in 1..Len(parts) : StartsWith(parts[j], name \o "=")}}

ValuesOf(cmd, name) == ValuesIn(SplitWs(cmd), name)

IntParams ==
  {e \in Range(rand_variables) :
     e.val.param_type = "int" /\ _is_int(e.val.min_val) /\ _is_int(e.val.max_val)
       /\ ToInt(e.val.min_val) <= ToInt(e.val.max_val)}

InIntBounds(text, min_val, max_val) ==
  _is_int(text)
    /\ ToInt(min_val) <= ToInt(text) /\ ToInt(text) <= ToInt(max_val)

\* C8: for an int parameter with integer bounds a <= b, what the sampler
\* returns is an integer of a..b, and so is the value the parameter has in
\* every generated command, for one trial and for more.
C8_IntWithinBounds ==
  /\ (call # None /\ ret # None /\ Lower(The(call).param_type) = "int"
        /\ _is_int(The(call).min_val) /\ _is_int(The(call).max_val)
        /\ ToInt(The(call).min_val) <= ToInt(The(call).max_val))
       => InIntBounds(The(ret).value, The(call).min_val, The(call).max_val)
  /\ (Launched /\ pc \in {"merge", "done"})
       => \A e \in IntParams : \A i \in 1..Len(cmd_prefix_list) :
            /\ ValuesOf(cmd_prefix_list[i], e.key) # {}
            /\ \A v \in ValuesOf(cmd_prefix_list[i], e.key) :
                 InIntBounds(v, e.val.min_val, e.val.max_val)

\* A run of more than one trial has written commands that between them hold
\* both bounds of an int parameter.
C8_Witness ==
  /\ Launched /\ pc = "done" /\ args.trials > 1
  /\ \E e \in IntParams :
       /\ \E i \in 1..Len(cmd_prefix_list) :
            ValuesOf(cmd_prefix_list[i], e.key) = {e.val.min_val}
       /\ \E i \in 1..Len(cmd_prefix_list) :
            ValuesOf(cmd_prefix_list[i], e.key) = {e.val.max_val}

\* A direct call of the sampler has returned.
Returned(kind) == call # None /\ ret # None /\ Lower(The(call).param_type) = kind

\* The candidate set of a choice text: the text between the brackets of a
\* bracketed list, or the whole text, split on commas, each item stripped, the
\* empty items dropped.
CandidateSet(text) ==
  LET inner == IF StartsWith(text, "[") /\ EndsWith(text, "]")
               THEN SubSeq(text, 2, Len(text) - 1) ELSE text
  IN {Strip(item) : item \in Range(Split(inner, ","))} \ {""}

\* C9: the value sampled for a choice parameter, bracketed or bare, is a
\* member of its candidate set.
C9_ChoiceIsCandidate ==
  (Returned("choice") /\ CandidateSet(The(call).min_val) # {})
    => The(ret).value \in CandidateSet(The(call).min_val)

\* A bare list with blanks around its items has been sampled from.
C9_Witness ==
  /\ Returned("choice")
  /\ ~StartsWith(The(call).min_val, "[")
  /\ Contains(The(call).min_val, ", ")
  /\ Cardinality(CandidateSet(The(call).min_val)) >= 3
  /\ The(ret).value \in CandidateSet(The(call).min_val)

\* A linear float call with numeric bounds a < b has returned a formatted
\* draw.
LinearFloatReturned ==
  /\ Returned("float") /\ Lower(The(call).sampling_space) # "log"
  /\ _is_float(The(call).min_val) /\ _is_float(The(call).max_val)
  /\ DecLess(ToFloat(The(call).min_val), ToFloat(The(call).max_val))
  /\ The(ret).random_value # None

\* The bounds, the number drawn, and the returned string read back.
BoundA == ToFloat(The(call).min_val)

BoundB == ToFloat(The(call).max_val)

Drawn == The(The(ret).random_value)

ReadBack == ToFloat(The(ret).value)

\* |x - y| <= tol
Within(x, y, tol) == DecLeq(DecAbs(DecSub(x, y)), tol)

\* C10 as the specification states it: the returned string read back lies in
\* [a, b] and within 1e-5 of the number drawn, in both renderings.
C10_RoundTripInBounds ==
  LinearFloatReturned =>
    /\ DecLeq(BoundA, ReadBack) /\ DecLeq(ReadBack, BoundB)
    /\ Within(ReadBack, Drawn, Dec(1, -5))

\* Half a unit of the last digit rendered for v: 0.5e-5 in the five-decimal
\* rendering, 0.5e-5 x 10^k in the scientific one, 10^k <= |v| < 10^(k+1).
HalfUnit(v) ==
  IF UsesScientific(v) /\ v.m # 0 THEN Dec(5, Mag(v) - 7) ELSE Dec(5, -6)

\* C10 as the code has it: the number drawn lies in [a, b]; the returned
\* string is the rendering of that number and, read back, is within half a
\* unit of its last rendered digit of it (and so within that much of [a, b]).
C10_RoundTripHalfUnit ==
  LinearFloatReturned =>
    /\ DecLeq(BoundA, Drawn) /\ DecLeq(Drawn, BoundB)
    /\ _is_float(The(ret).value)
    /\ Within(ReadBack, Drawn, HalfUnit(Drawn))
    /\ The(ret).value = (IF UsesScientific(Drawn) THEN Format5e(Drawn) ELSE Format5f(Drawn))

\* The returned string reads back below the lower bound, or, in the
\* scientific rendering, more than 1e-5 from the number drawn.
C10_Witness ==
  /\ LinearFloatReturned
  /\ \/ DecLess(ReadBack, BoundA)
     \/ UsesScientific(Drawn) /\ ~Within(ReadBack, Drawn, Dec(1, -5))

\* The generated commands are complete: expansion has ended without a fatal
\* error and the tags asked for are attached.  No later step changes
\* cmd_prefix_list.
Generated == Launched /\ pc = "merge"

\* The number of samplings of each random parameter: one per trial, one for
\* the whole sweep when trials = 1.
Samplings == IF num_trials > 1 THEN num_trials ELSE 1

\* The trial (1..Samplings) that produced command i: the commands of one
\* trial are contiguous and every trial yields as many.
TrialOf(i) == ((i - 1) \div (Len(cmd_prefix_list) \div Samplings)) + 1

\* What the sampler returned for the j-th random parameter in trial t.
DrawOf(t, j) == draws[(t - 1) * Len(rand_variables) + j]

\* C11: each random parameter is sampled exactly once per trial (once for
\* the whole sweep when trials = 1), and every command of a trial holds, as
\* the value of that parameter, exactly what that one sampling returned.
C11_OneDrawPerTrial ==
  (Generated /\ rand_variables # <<>>) =>
    /\ Len(draws) = Samplings * Len(rand_variables)
    /\ \A t \in 1..Samplings : \A j \in 1..Len(rand_variables) :
         DrawOf(t, j).key = rand_variables[j].key
    /\ Len(cmd_prefix_list) % Samplings = 0
    /\ \A i \in 1..Len(cmd_prefix_list) : \A j \in 1..Len(rand_variables) :
         ValuesOf(cmd_prefix_list[i], rand_variables[j].key) = {DrawOf(TrialOf(i), j).val}

\* A run of several trials, each of several commands, whose trials drew
\* different values.
C11_Witness ==
  /\ Generated /\ num_trials > 1 /\ rand_variables # <<>>
  /\ Len(cmd_prefix_list) > Samplings
  /\ DrawOf(1, 1).val # DrawOf(2, 1).val

\* The grid parameters of the call that have values, in the order given.
ValuedGrid == SelectSeq(args.arg, LAMBDA g : Len(g) > 1)

\* Every way of taking one element from each list of a sequence of lists.
Choices(lists) ==
  {s \in [1..Len(lists) -> UNION {Range(lists[k]) : k \in 1..Len(lists)}] :
     \A k \in 1..Len(lists) : s[k] \in Range(lists[k])}

\* Every combination of one value per positional parameter and one value per
\* grid parameter of the call.
AllCombos ==
  {[pos |-> p, grid |-> [k \in 1..Len(ValuedGrid) |-> {g[k]}]] :
     p \in Choices(args.pos_arg),
     g \in Choices([k \in 1..Len(ValuedGrid) |-> Tail(ValuedGrid[k])])}

\* The combination a generated command holds: the words after the base
\* command, and the values following each grid parameter's name.
ComboOf(cmd) ==
  LET parts == SplitWs(cmd)
  IN [pos |-> SubSeq(parts, 2, 1 + Len(args.pos_arg)),
      grid |-> [k \in 1..Len(ValuedGrid) |-> ValuesIn(parts, ValuedGrid[k][1])]]

\* The indices of the commands of trial t.
TrialBlock(t) == {i \in 1..Len(cmd_prefix_list) : TrialOf(i) = t}

\* C12: with a random parameter, trials = T > 1 and no flags, every
\* combination of grid and positional values is held by exactly one command
\* of each trial, so by exactly T commands of the batch.
C12_ComboOncePerTrial ==
  (Generated /\ num_trials > 1 /\ rand_variables # <<>> /\ args.flag = <<>>) =>
    LET combos == AllCombos
        held == [i \in 1..Len(cmd_prefix_list) |-> ComboOf(cmd_prefix_list[i])]
    IN /\ Len(cmd_prefix_list) = num_trials * Cardinality(combos)
       /\ \A t \in 1..num_trials : \A c \in combos :
            Cardinality({i \in TrialBlock(t) : held[i] = c}) = 1
       /\ \A c \in combos :
            Cardinality({i \in 1..Len(cmd_prefix_list) : held[i] = c}) = num_trials

\* A run of several trials over a grid parameter of two values and a
\* positional parameter of two values.
C12_Witness ==
  /\ Generated /\ num_trials > 1 /\ rand_variables # <<>> /\ args.flag = <<>>
  /\ Cardinality(AllCombos) >= 4
  /\ \E c \in AllCombos : c.pos # <<>> /\ c.grid # <<>>

\* The batch is merged and about to be written: command i will be stored
\* under the id start_jobid + i - 1.
Merged == Launched /\ pc = "save"

\* Tagging is requested under a tag parameter name.
Tagging == args.tag # None /\ The(args.tag) # ""

\* The tag command i carries: the value following the tag parameter's name.
TagOf(i) == CHOOSE tag \in ValuesOf(cmd_prefix_list[i], The(args.tag)) : TRUE

\* The tag begins with head and no digit follows it.
NumberedAs(tag, head) ==
  StartsWith(tag, head) /\ (Len(tag) = Len(head) \/ ~IsDigit(CharAt(tag, Len(head) + 1)))

\* C13: in auto-numbered mode the tag of each command of a batch holds the
\* job id under which the command is stored, counted from 1 on a fresh store
\* and from max(existing ids) + 1 when appending, zero-padded to the width
\* of the largest id of the batch, for one trial and for more.
C13_TagNumberIsJobId ==
  (Merged /\ Tagging /\ ~args.no_tag_number) =>
    LET first == start_jobid(args, disk)
        width == Len(IntToStr(first + Len(cmd_prefix_list) - 1))
    IN \A i \in 1..Len(cmd_prefix_list) :
         /\ ValuesOf(cmd_prefix_list[i], The(args.tag)) # {}
         /\ NumberedAs(TagOf(i), args.jobname \o SEP \o ZeroPad(first + i - 1, width))

\* C14: with tagging requested and auto-numbering disabled, the tag of every
\* generated command is the job name followed by the tag suffix (empty, or
\* the separated components of the tag-bearing parameters) and holds no
\* generated number, for one trial and for more.
C14_UnnumberedTags ==
  (Generated /\ Tagging /\ args.no_tag_number) =>
    \A i \in 1..Len(cmd_prefix_list) :
      /\ ValuesOf(cmd_prefix_list[i], The(args.tag)) # {}
      /\ \/ TagOf(i) = args.jobname
         \/ StartsWith(TagOf(i), args.jobname \o WSEP)
      /\ \A n \in 1..Len(cmd_prefix_list) :
           ~NumberedAs(TagOf(i), args.jobname \o SEP \o IntToStr(n))

\* C15: with a random parameter, trials = T > 1 and tagging requested, the
\* tag of every command begins with the job name, the separator and the
\* number (1..T) of the trial that produced the command, zero-padded to the
\* width of T; so the commands of one trial carry one number.
C15_TagNumberIsTrial ==
  (Generated /\ Tagging /\ num_trials > 1 /\ rand_variables # <<>>) =>
    \A i \in 1..Len(cmd_prefix_list) :
      /\ ValuesOf(cmd_prefix_list[i], The(args.tag)) # {}
      /\ NumberedAs(TagOf(i),
                    args.jobname \o SEP \o ZeroPad(TrialOf(i), Len(IntToStr(num_trials))))

\* The +randarg specifications whose kind is none of int, float, choice.
UnknownKinds ==
  {i \in 1..Len(The(args.randarg)) :
     /\ Len(The(args.randarg)[i]) >= 3
     /\ Lower(The(args.randarg)[i][2]) \notin {"int", "float", "choice"}}

\* The call has a specification of unknown kind and none with a listed
\* fatal error.
OnlyUnknownKind ==
  /\ Launched /\ args.randarg # None
  /\ args.arg_mode \in {"argparse", "hydra"}
  /\ UnknownKinds # {}
  /\ ~HasListedFatal

\* C16: a +randarg specification of unknown kind does not abort the run: the
\* run never exits with status 1, and the commands it generates hold the
\* specification's first bound, unchanged, as the parameter's value.
C16_UnknownKindCompletes ==
  OnlyUnknownKind =>
    /\ ~(pc = "exit" /\ status = "exit1")
    /\ Generated =>
         \A k \in UnknownKinds : \A i \in 1..Len(cmd_prefix_list) :
           ValuesOf(cmd_prefix_list[i], The(args.randarg)[k][1]) = {The(args.randarg)[k][3]}

\* The direct sampler call has one of the recoverable value anomalies: an
\* unknown kind, an int kind with a bound that is not an integer, a float
\* kind with a bound that is not a number, a choice kind with no candidate.
Anomalous ==
  /\ call # None
  /\ LET kind == Lower(The(call).param_type)
         lo == The(call).min_val
         hi == The(call).max_val
     IN \/ kind \notin {"int", "float", "choice"}
        \/ kind = "int" /\ (~_is_int(lo) \/ ~_is_int(hi))
        \/ kind = "float" /\ (~_is_float(lo) \/ ~_is_float(hi))
        \/ kind = "choice" /\ ParseChoices(lo) = <<>>

\* C17: called with a recoverable value anomaly, the sampler returns (it has
\* an outcome), and what it returns is its first bound argument unchanged,
\* with exactly one warning emitted.
C17_AnomalyFallsBack ==
  Anomalous =>
    /\ _sample_random_value(The(call).param_type, The(call).min_val, The(call).max_val,
                            The(call).sampling_space) # {}
    /\ ret # None =>
         /\ The(ret).value = The(call).min_val
         /\ The(ret).warnings = 1
         /\ warnings = 1

\* An int call whose upper bound is not an integer has returned its lower
\* bound.
C17_Witness ==
  /\ Anomalous /\ Returned("int")
  /\ _is_int(The(call).min_val) /\ ~_is_int(The(call).max_val)
  /\ The(ret).value = The(call).min_val

\* The number of commands a call generates when nothing is fatal: lines
\* 244-421 with the lists of lines 317-396 folded over the parameters.
\* The number does not depend on the values drawn: for a single trial each
\* random parameter stands with one value, here its first bound.
BatchLen(a) ==
  LET specs == IF a.randarg = None THEN <<>> ELSE The(a.randarg)
      RECURSIVE Entries(_)
      Entries(n) ==
        IF n = 0 THEN <<>>
        ELSE DictSet(Entries(n - 1), specs[n][1], The(ValidateRandarg(specs[n]).entry))
      rvs == Entries(Len(specs))
      grid == DictOfArgs(a.arg)
      sampled == SetSampled(grid, rvs,
                            [i \in 1..Len(rvs) |-> [value |-> rvs[i].val.min_val]])
      tag_args == IF a.tag_args = None THEN DictKeys(sampled) ELSE The(a.tag_args)
      RECURSIVE Flags(_, _)
      Flags(list, n) ==
        IF n = 0 THEN list ELSE ExpandFlag(Flags(list, n - 1), a.flag[n])
      RECURSIVE PosSuffix(_, _)
      PosSuffix(list, n) ==
        IF n = 0 THEN list ELSE SuffixPositional(PosSuffix(list, n - 1), a.pos_arg[n])
      RECURSIVE NamedSuffix(_, _)
      NamedSuffix(list, n) ==
        IF n = 0 THEN list
        ELSE SuffixNamed(NamedSuffix(list, n - 1), sampled[n].key, sampled[n].val,
                         tag_args, rvs)
      RECURSIVE FlagSuffix(_, _)
      FlagSuffix(list, n) ==
        IF n = 0 THEN list ELSE SuffixFlag(FlagSuffix(list, n - 1), a.flag[n])
      positional == ExpandAllPositional(<<a.command>>, a.pos_arg)
      prefix == Flags(ExpandAllNamed(positional, sampled, " "), Len(a.flag))
      suffix == FlagSuffix(NamedSuffix(PosSuffix(<<"">>, Len(a.pos_arg)), Len(sampled)),
                           Len(a.flag))
  IN IF rvs # <<>> /\ a.trials > 1
     THEN a.trials * Len(ExpandAllNamed(positional, grid, " "))
     ELSE IF a.tag = None THEN Len(prefix)
     ELSE ZipLen(prefix, suffix)

\* A +randarg specification without the tokens its kind does not consume.
Trimmed(rand_arglist) ==
  LET kind == IF Len(rand_arglist) >= 2 THEN Lower(rand_arglist[2]) ELSE ""
      used == IF kind = "choice" THEN 3
              ELSE IF kind = "float" /\ Len(rand_arglist) > 4
                        /\ Lower(rand_arglist[5]) = "log" THEN 5
              ELSE IF kind \in {"int", "float"} THEN 4
              ELSE Len(rand_arglist)
  IN SubSeq(rand_arglist, 1, Min2(used, Len(rand_arglist)))

\* The names the call registers as named parameters: grid and random ones.
Registered(a) ==
  {a.arg[i][1] : i \in 1..Len(a.arg)}
    \cup (IF a.randarg = None THEN {}
          ELSE {The(a.randarg)[i][1] : i \in 1..Len(The(a.randarg))})

\* The same call without surplus tokens and without tag-bearing names that
\* are no registered parameter.
Cleaned(a) ==
  [a EXCEPT
     !.randarg = IF a.randarg = None THEN None
                 ELSE Some([i \in 1..Len(The(a.randarg)) |-> Trimmed(The(a.randarg)[i])]),
     !.tag_args = IF a.tag_args = None THEN None
                  ELSE Some(SelectSeq(The(a.tag_args), LAMBDA n : n \in Registered(a)))]

\* Nothing in the call or the job file is fatal.
Regular(a, file) ==
  /\ a.arg_mode \in {"argparse", "hydra"}
  /\ a.tag # Some("")
  /\ a.randarg # None =>
       \A i \in 1..Len(The(a.randarg)) : ~ValidateRandarg(The(a.randarg)[i]).fatal
  /\ LoadError(a, file) = ""

\* The call has surplus tokens or an unregistered tag-bearing name, and
\* without them would be regular.
OnlySurplus == Launched /\ Cleaned(args) # args /\ Regular(Cleaned(args), disk)

\* C18: surplus tokens in a +randarg specification and a tag-bearing name
\* that is no registered parameter are not fatal: the run does not exit on
\* an error, each specification is stored with the kind, bounds and space it
\* has without the surplus tokens, and the run adds as many records to the
\* job file as the same call without the anomaly.
C18_SurplusHarmless ==
  /\ (Launched /\ pc = "exit") => ~OnlySurplus
  /\ (Merged /\ Regular(args, disk)) => Len(cmd_prefix_list) = BatchLen(args)
  /\ (Merged /\ OnlySurplus) =>
       LET n == BatchLen(Cleaned(args))
       IN /\ \A i \in 1..Len(rand_variables) :
               \E k \in 1..Len(The(args.randarg)) :
                 /\ The(args.randarg)[k][1] = rand_variables[i].key
                 /\ Some(rand_variables[i].val)
                      = ValidateRandarg(Trimmed(The(args.randarg)[k])).entry
          /\ Len(cmd_prefix_list) = n
          /\ Cardinality(DOMAIN jobs) = Cardinality(DOMAIN ExistingJobs(args, disk)) + n
  /\ (Launched /\ pc = "done" /\ OnlySurplus) => FileIds(disk) = DOMAIN jobs

\* A finished run that warned, the variant of an explored call without the
\* anomaly: its log-space specification had a surplus token, or its several
\* commands were tagged by a registered and an unregistered name.
C18_Witness ==
  /\ OnlySurplus /\ pc = "done" /\ warnings > 0
  /\ \E l \in Launches : l[1] = Cleaned(args)
  /\ \/ \E k \in 1..Len(rand_variables) : rand_variables[k].val.sampling_space = "log"
     \/ /\ args.tag_args # None /\ Len(The(args.tag_args)) > 1
        /\ Len(cmd_prefix_list) > 1

\* The job file holds every record of jobs, each under its id, and no other.
WrittenInFull ==
  /\ disk # None
  /\ FileIds(disk) = DOMAIN jobs
  /\ \A id \in DOMAIN jobs : The(disk)[IntToStr(id)] = jobs[id]

\* C19: a run adds a history entry at most once, at a moment when the job
\* file holds all of the merged records; the job file changes only in the
\* step that writes it, after which the run cannot end in a fatal error; a
\* step into a fatal error leaves the job file as it was and the history
\* without an entry.
C19_HistoryAfterWrite ==
  [][Launched =>
       /\ history' # history =>
            /\ history = 0 /\ history' = 1
            /\ pc = "history" /\ WrittenInFull
       /\ disk' # disk => Saving
       /\ pc \in {"history", "done"} => pc' \in {"history", "done"}
       /\ pc' = "exit" =>
            /\ status' # "ok"
            /\ disk' = disk
            /\ history = 0 /\ history' = 0]_vars

\* An appending run has written the earlier records and its own to the job
\* file and added its history entry.
C19_Witness ==
  /\ Launched /\ pc = "done" /\ history = 1 /\ WrittenInFull /\ args.append
  /\ Cardinality(DOMAIN jobs) > Len(cmd_prefix_list)
  /\ cmd_prefix_list # <<>>

\* Both appending invocations have returned.
BothDone == appenders # None /\ \A p \in Invocations : appenders[p].at = "done"

\* The invocation whose write is the latest so far.
LastWriter == CHOOSE p \in Invocations : appenders[p].order = Writes

\* The ids an invocation gave to its own commands.
NewIds(p) ==
  appenders[p].start_jobid..(appenders[p].start_jobid + Len(appenders[p].batch) - 1)

\* The commands the job file holds.
FileCommands == {The(disk)[k][1] : k \in DOMAIN The(disk)}

\* C20: when two appending invocations interleave on one job file, the file
\* is, after every write and so at the end, exactly the store of the
\* invocation that wrote last: the records it found and its own.  When both
\* loaded before either wrote, both gave their commands the same first id,
\* and at the end the file holds none of the commands of the one that wrote
\* first.
C20_LastWriterWins ==
  (appenders # None /\ Writes > 0) =>
    LET last == LastWriter
    IN /\ FileIds(disk) = DOMAIN appenders[last].jobs
       /\ \A id \in FileIds(disk) : The(disk)[IntToStr(id)] = appenders[last].jobs[id]
       /\ FileIds(disk) = appenders[last].found \cup NewIds(last)
       /\ \A i \in 1..Len(appenders[last].batch) :
            The(disk)[IntToStr(appenders[last].start_jobid + i - 1)]
              = appenders[last].batch[i]
       /\ (Writes = 2 /\ \A p \in Invocations : appenders[p].seen = 0) =>
            /\ appenders[1].start_jobid = appenders[2].start_jobid
            /\ \A p \in Invocations \ {last} : \A i \in 1..Len(appenders[p].batch) :
                 appenders[p].batch[i][1] \notin FileCommands

\* Both invocations loaded before either wrote, both have returned, and
\* the one that wrote first had brought more commands than the other.
C20_Witness ==
  /\ BothDone /\ Writes = 2
  /\ \A p \in Invocations : appenders[p].seen = 0
  /\ \E p \in Invocations \ {LastWriter} :
       Len(appenders[p].batch) > Len(appenders[LastWriter].batch)
  /\ history = 2

\* C21: saving a mapping from job id to (command, tag) and loading the file
\* back gives a command map and a tag map over the same ids, as integers,
\* holding the saved commands and tags.
C21_SaveLoadRoundTrip ==
  Merged =>
    LET back == load_jobfile(The(save_jobfile(jobs)))
    IN /\ DOMAIN back.cmds = DOMAIN jobs
       /\ DOMAIN back.tags = DOMAIN jobs
       /\ DOMAIN jobs \subseteq Nat \ {0}
       /\ \A id \in DOMAIN jobs :
            /\ back.cmds[id] = jobs[id][1]
            /\ back.tags[id] = jobs[id][2]

\* A merged store with a two-digit id and a gap in its ids, whose records
\* have tags.
C21_Witness ==
  /\ Merged
  /\ \E id \in DOMAIN jobs : id >= 10 /\ jobs[id][2] # ""
  /\ \E id \in DOMAIN jobs : id > 1 /\ (id - 1) \notin DOMAIN jobs

\* The grid processing with tagging is between two expansion stages, or past
\* the last one.
BetweenStages ==
  /\ Launched /\ pc \in {"expand", "tag"}
  /\ trial_commands = <<>>
  /\ args.tag # None /\ cmd_suffix_list # None

\* C22: with tagging in the single-trial path, after every expansion stage
\* the tag-suffix list is as long as the command-prefix list, and entry i of
\* the one belongs to entry i of the other: the suffix holds the values of
\* the tag-bearing named parameters that the command holds.
C22_ListsInLockStep ==
  BetweenStages =>
    /\ Len(The(cmd_suffix_list)) = Len(cmd_prefix_list)
    /\ \A i \in 1..Len(cmd_prefix_list) :
         \A k \in 1..(stage - Len(pos_variables)) :
           (k <= Len(NamedStages) /\ NamedStages[k].key \in Range(The(args.tag_args))
              /\ NamedStages[k].val # <<>>)
             => \E v \in ValuesOf(cmd_prefix_list[i], NamedStages[k].key) :
                  Contains(The(cmd_suffix_list)[i], Keyname(NamedStages[k].key) \o SEP \o v)

\* The trial commands are complete and no tag is appended yet.
TrialsGenerated == Launched /\ pc = "tag" /\ trial_commands # <<>>

\* Lines 382-387 over every flag.
RECURSIVE ExpandAllFlags(_, _)
ExpandAllFlags(prefix_list, flags) ==
  IF flags = <<>> THEN prefix_list
  ELSE ExpandAllFlags(ExpandFlag(prefix_list, Head(flags)), Tail(flags))

\* What the single-trial expansion (positional, then named, then flags)
\* gives when each random parameter is a grid entry with the one value that
\* trial t drew.
SingleTrialCommands(t) ==
  LET sampled == SetSampled(DictOfArgs(args.arg), rand_variables,
                            [j \in 1..Len(rand_variables) |-> [value |-> DrawOf(t, j).val]])
  IN ExpandAllFlags(
       ExpandAllNamed(ExpandAllPositional(<<args.command>>, args.pos_arg), sampled, VAR_SEP),
       args.flag)

\* C23: for trials > 1 the commands, before any tag is appended, are the
\* lists that the single-trial positional, grid, flag expansion gives for
\* each trial's sampled values, concatenated in trial order.
C23_TrialsAsSingleTrial ==
  TrialsGenerated =>
    cmd_prefix_list = Flatten([t \in 1..num_trials |-> SingleTrialCommands(t)])

\* The positional and the named parameters of a single-trial launch are
\* expanded and no flag is applied yet.
GridExpanded ==
  /\ Launched /\ pc \in {"expand", "tag"} /\ status = "running"
  /\ trial_commands = <<>>
  /\ stage = Len(pos_variables) + Len(NamedStages)

\* The value lists in specification order: positional, then named.
Dimensions == pos_variables \o [k \in 1..Len(NamedStages) |-> NamedStages[k].val]

\* How many values dimension k cycles through; a toggle has one form.
SizeOf(k) ==
  IF k > Len(pos_variables) /\ Dimensions[k] = <<>> THEN 1 ELSE Len(Dimensions[k])

\* How many commands pass before dimension k advances when every earlier
\* dimension cycles fully first.
StrideOf(k) == ProductOf([d \in 1..(k - 1) |-> SizeOf(d)])

\* What dimension k adds to the command at index idx.
PieceOf(k, idx) ==
  LET at == (((idx - 1) \div StrideOf(k)) % SizeOf(k)) + 1
      P == Len(pos_variables)
  IN IF k <= P THEN " " \o Dimensions[k][at]
     ELSE IF Dimensions[k] = <<>> THEN " " \o NamedStages[k - P].key
     ELSE " " \o NamedStages[k - P].key \o VAR_SEP \o Dimensions[k][at]

RECURSIVE CommandAt(_, _)
CommandAt(idx, k) ==
  IF k = 0 THEN args.command ELSE CommandAt(idx, k - 1) \o PieceOf(k, idx)

\* C24: in the generated order, a later-specified positional or named
\* parameter varies in the slower loop: the command at index idx holds, for
\* each parameter, the value at position ((idx - 1) div stride) mod size of
\* its input list, the stride being the product of the sizes of the
\* parameters specified before it.
C24_LaterVariesSlower ==
  GridExpanded =>
    /\ Len(cmd_prefix_list) = StrideOf(Len(Dimensions) + 1)
    /\ \A idx \in 1..Len(cmd_prefix_list) :
         cmd_prefix_list[idx] = CommandAt(idx, Len(Dimensions))

\* Two parameters of two values each: the second command differs from the
\* first in the earlier parameter, the third in the later one.
C24_Witness ==
  /\ GridExpanded
  /\ \E k \in 2..Len(Dimensions) : SizeOf(k) >= 2 /\ SizeOf(k - 1) >= 2
  /\ pos_variables # <<>> /\ NamedStages # <<>>

\* The step that applies the next flag.
FlagStep ==
  /\ Launched /\ pc = "expand" /\ status = "running"
  /\ stage >= Len(pos_variables) + Len(NamedStages)
  /\ stage' = stage + 1

\* The flag that FlagStep applies.
FlagApplied == flag_variables[stage - Len(pos_variables) - Len(NamedStages) + 1]

\* The flag as a tag names it: without its dashes and plus signs.
FlagName(flag) == Replace(Replace(flag, "-", ""), "+", "")

\* C25: applying one flag to n prefixes gives 2n commands, the flag-present
\* form of prefix j at index j and its unchanged form at index n + j, so
\* present before absent; the tag suffixes are split alike, suffix j with
\* the '+' component at index j and with the '-' component at index m + j,
\* so that where both lists have an index the command and the tag agree on
\* the flag.
C25_FlagSplit ==
  [][FlagStep =>
       LET n == Len(cmd_prefix_list)
           flag == FlagApplied
       IN /\ Len(cmd_prefix_list') = 2 * n
          /\ \A j \in 1..n :
               /\ cmd_prefix_list'[j] = cmd_prefix_list[j] \o " " \o flag
               /\ cmd_prefix_list'[n + j] = cmd_prefix_list[j]
          /\ args.tag = None => cmd_suffix_list' = cmd_suffix_list
          /\ args.tag # None =>
               LET old == The(cmd_suffix_list)
                   new == The(cmd_suffix_list')
                   m == Len(old)
               IN /\ Len(new) = 2 * m
                  /\ \A j \in 1..m :
                       /\ new[j] = old[j] \o WSEP \o FLAG_ON \o FlagName(flag)
                       /\ new[m + j] = old[j] \o WSEP \o FLAG_OFF \o FlagName(flag)
                  /\ m = n =>
                       \A i \in 1..(2 * n) :
                         EndsWith(new[i], FLAG_ON \o FlagName(flag)) <=> i <= n
  ]_vars

\* A flag was applied to at least two prefixes of a tagged launch.
C25_Witness ==
  /\ Launched /\ pc \in {"expand", "tag"} /\ status = "running"
  /\ trial_commands = <<>>
  /\ stage > Len(pos_variables) + Len(NamedStages)
  /\ args.tag # None /\ cmd_suffix_list # None
  /\ Len(cmd_prefix_list) >= 4
  /\ Len(The(cmd_suffix_list)) = Len(cmd_prefix_list)

\* The tag suffixes of a single-trial launch are complete and the tags are
\* not assembled yet.
GridTagged ==
  /\ Launched /\ pc = "tag" /\ status = "running"
  /\ trial_commands = <<>>
  /\ args.tag # None /\ cmd_suffix_list # None

\* The list of tag-bearing names is not the default of line 311, so it was
\* given explicitly.
ExplicitTagArgs ==
  The(args.tag_args) # SelectSeq(base_cmd_args, LAMBDA k : k # "__trial__")

\* c is the tag component of a named parameter of the list.
ListedComponent(c) ==
  \E k \in 1..Len(NamedStages) :
    /\ NamedStages[k].key \in Range(The(args.tag_args))
    /\ \/ c = Keyname(NamedStages[k].key)
       \/ StartsWith(c, Keyname(NamedStages[k].key) \o SEP)

\* The components of a tag suffix.
ComponentsOf(suffix) == Range(Tail(Split(suffix, WSEP)))

\* C26: with an explicit list of tag-bearing names, every component of every
\* tag suffix belongs to a named parameter of that list; positional
\* parameters, flags and unselected named parameters contribute nothing.
C26_OnlyListedInTag ==
  (GridTagged /\ ExplicitTagArgs) =>
    \A i \in 1..Len(The(cmd_suffix_list)) :
      \A c \in ComponentsOf(The(cmd_suffix_list)[i]) : ListedComponent(c)

\* The trial commands carry their re-scanned tags.
TrialsTagged == Generated /\ Tagging /\ trial_commands # <<>>

\* A value without a space and without a separator character.
PlainValue(v) == v # "" /\ ~Contains(v, " ") /\ ~Contains(v, SEP) /\ ~Contains(v, "=")

\* The components of the tag of command i.
TagComponents(i) == Split(TagOf(i), WSEP)

\* The tag of command i has exactly one component for the parameter key,
\* and it holds the value v.
OneComponent(i, key, v) ==
  LET comps == TagComponents(i)
      own == {n \in 1..Len(comps) : StartsWith(comps[n], Keyname(key) \o SEP)}
  IN /\ Cardinality(own) = 1
     /\ \A n \in own : comps[n] = Keyname(key) \o SEP \o v

\* C27: with trials > 1 and tagging, the re-scanned tag of a command has,
\* for every random parameter and for every grid parameter with values,
\* exactly one component name_value whose value is the one the parameter
\* has in that command, provided the value has no space and no separator.
C27_RescanFindsValues ==
  TrialsTagged =>
    \A i \in 1..Len(cmd_prefix_list) :
      /\ ValuesOf(cmd_prefix_list[i], The(args.tag)) # {}
      /\ \A j \in 1..Len(rand_variables) :
           LET v == DrawOf(TrialOf(i), j).val
           IN PlainValue(v) => OneComponent(i, rand_variables[j].key, v)
      /\ \A k \in 1..Len(NamedStages) :
           LET e == NamedStages[k]
           IN (e.val # <<>> /\ \A v \in Range(e.val) : PlainValue(v)) =>
                \E v \in ValuesOf(trial_commands[i], e.key) : OneComponent(i, e.key, v)

\* C28: whenever tagging is requested, the tag field of every record of the
\* batch equals the tag appended to that record's command, for one trial and
\* for more.
C28_TagFieldIsTag ==
  (Merged /\ Tagging) =>
    LET first == start_jobid(args, disk)
    IN \A i \in 1..Len(cmd_prefix_list) :
         /\ (first + i - 1) \in DOMAIN jobs
         /\ jobs[first + i - 1][1] = cmd_prefix_list[i]
         /\ ValuesOf(jobs[first + i - 1][1], The(args.tag)) = {jobs[first + i - 1][2]}

=============================================================================
